---- MODULE Spec2Model ----
(***************************************************************************)
(* Model of the ingestion pipeline of app/stage2_processing.py: the five   *)
(* record ingesters (payment, IB rebate, CRM withdrawal, CRM deposit,      *)
(* account list), the column resolver and the file reader, running against *)
(* the five persisted tables of the relational store.                      *)
(*                                                                         *)
(* Text is modelled as a tuple of one-character strings so that strip(),   *)
(* upper() and substring containment are computed, not assumed.            *)
(* A cell of a decoded table is either such a text or NaN, the value the   *)
(* pandas readers deliver for an absent cell.                              *)
(***************************************************************************)
EXTENDS Integers, Sequences, FiniteSets, TLC

VARIABLES PaymentData, IBRebate, CRMWithdrawals, CRMDeposit, AccountList,
          ncalls, last, report, sessions

vars == <<PaymentData, IBRebate, CRMWithdrawals, CRMDeposit, AccountList,
          ncalls, last, report, sessions>>

tables == <<PaymentData, IBRebate, CRMWithdrawals, CRMDeposit, AccountList>>

(***************************************************************************)
(* Bounds of the model.                                                    *)
(***************************************************************************)
MaxCalls == 2

MaxRows == 2

(***************************************************************************)
(* Literals of the source.                                                 *)
(***************************************************************************)
sTransactionID == <<"T","r","a","n","s","a","c","t","i","o","n"," ","I","D">>
sStatus == <<"S","t","a","t","u","s">>
sPaymentGateway == <<"P","a","y","m","e","n","t"," ","g","a","t","e","w","a","y">>
sType == <<"T","y","p","e">>
sTRANSACTION_ID == <<"T","R","A","N","S","A","C","T","I","O","N","_","I","D">>
sRebate == <<"R","e","b","a","t","e">>
sRebateTime == <<"R","e","b","a","t","e"," ","T","i","m","e">>
sREBATE_TIME == <<"R","E","B","A","T","E","_","T","I","M","E">>
sReviewTime == <<"R","e","v","i","e","w"," ","T","i","m","e">>
sREVIEW_TIME == <<"R","E","V","I","E","W","_","T","I","M","E">>
sTradingAccount == <<"T","r","a","d","i","n","g"," ","A","c","c","o","u","n","t">>
sTRADING_ACCOUNT == <<"T","R","A","D","I","N","G","_","A","C","C","O","U","N","T">>
sWithdrawalAmount == <<"W","i","t","h","d","r","a","w","a","l"," ","A","m","o","u","n","t">>
sWITHDRAWAL_AMOUNT == <<"W","I","T","H","D","R","A","W","A","L","_","A","M","O","U","N","T">>
sRequestID == <<"R","e","q","u","e","s","t"," ","I","D">>
sREQUEST_ID == <<"R","E","Q","U","E","S","T","_","I","D">>
sRequestTime == <<"R","e","q","u","e","s","t"," ","T","i","m","e">>
sREQUEST_TIME == <<"R","E","Q","U","E","S","T","_","T","I","M","E">>
sTradingAmount == <<"T","r","a","d","i","n","g"," ","A","m","o","u","n","t">>
sTRADING_AMOUNT == <<"T","R","A","D","I","N","G","_","A","M","O","U","N","T">>
sPaymentMethod == <<"P","a","y","m","e","n","t"," ","M","e","t","h","o","d">>
sPAYMENT_METHOD == <<"P","A","Y","M","E","N","T","_","M","E","T","H","O","D">>
sClientID == <<"C","l","i","e","n","t"," ","I","D">>
sCLIENT_ID == <<"C","L","I","E","N","T","_","I","D">>
sName == <<"N","a","m","e">>
sLogin == <<"L","o","g","i","n">>
sGroup == <<"G","r","o","u","p">>
sUSC == <<"U","S","C">>

sDONE == <<"D","O","N","E">>
sBALANCE == <<"B","A","L","A","N","C","E">>
sDEPOSIT == <<"D","E","P","O","S","I","T">>
sWITHDRAW == <<"W","I","T","H","D","R","A","W">>

sSETTLEMENT == <<"S","E","T","T","L","E","M","E","N","T">>
sMETATRADER == <<"M","E","T","A","T","R","A","D","E","R">>
sWelcomeGroup == <<"W","E","L","C","O","M","E","\\","W","e","l","c","o","m","e"," ","B","B","O","O","K">>

(***************************************************************************)
(* Python text primitives used by the source.                              *)
(***************************************************************************)
LowerLetters == <<"a","b","c","d","e","f","g","h","i","j","k","l","m","n","o","p","q","r","s","t","u","v","w","x","y","z">>

UpperLetters == <<"A","B","C","D","E","F","G","H","I","J","K","L","M","N","O","P","Q","R","S","T","U","V","W","X","Y","Z">>

Whitespace == {" ", "\t"}

\* the characters of the texts of the model
Chars ==
    {LowerLetters[i] : i \in 1..Len(LowerLetters)}
    \cup {UpperLetters[i] : i \in 1..Len(UpperLetters)}
    \cup Whitespace \cup {"_", "\\", ".", "-", ",", ";"}
    \cup {"0", "1", "2", "3", "4", "5", "6", "7", "8", "9"}

\* str.upper() on one character, tabulated once
UpperChar ==
    [c \in Chars |->
        IF \E i \in 1..Len(LowerLetters) : LowerLetters[i] = c
        THEN UpperLetters[CHOOSE i \in 1..Len(LowerLetters) : LowerLetters[i] = c]
        ELSE c]

\* str.lower() on one character, tabulated once
LowerChar ==
    [c \in Chars |->
        IF \E i \in 1..Len(UpperLetters) : UpperLetters[i] = c
        THEN LowerLetters[CHOOSE i \in 1..Len(UpperLetters) : UpperLetters[i] = c]
        ELSE c]

\* str.lower()
lower(s) == [i \in 1..Len(s) |-> LowerChar[s[i]]]

\* str.upper()
upper(s) == [i \in 1..Len(s) |-> UpperChar[s[i]]]

RECURSIVE lstrip(_)
lstrip(s) == IF s # <<>> /\ Head(s) \in Whitespace THEN lstrip(Tail(s)) ELSE s

RECURSIVE rstrip(_)
rstrip(s) ==
    IF s # <<>> /\ s[Len(s)] \in Whitespace THEN rstrip(SubSeq(s, 1, Len(s) - 1)) ELSE s

\* str.strip()
strip(s) == rstrip(lstrip(s))

\* the Python test  sub in s
Contains(sub, s) ==
    \E i \in 0..(Len(s) - Len(sub)) : SubSeq(s, i + 1, i + Len(sub)) = sub

\* float('nan'), the absent cell of a pandas table
NaN == <<"NaN">>

\* Python None
None == <<"None">>

sNan == <<"n","a","n">>

sNone == <<"N","o","n","e">>

\* str(value)
str(value) ==
    IF value = NaN THEN sNan ELSE IF value = None THEN sNone ELSE value

\* truth value of a cell:  NaN is truthy, None and '' are falsy
truthy(value) == value # <<>> /\ value # None

\* the Python expression  value or ''
or_empty(value) == IF truthy(value) THEN value ELSE <<>>

safe_str(value) == IF value = None THEN <<>> ELSE str(value)

(***************************************************************************)
(* Numbers.  A float is counted in units of 1/Scale, which is exact for    *)
(* the amounts of the model (at most two decimals, divided by 100 once).   *)
(***************************************************************************)
Digits == <<"0", "1", "2", "3", "4", "5", "6", "7", "8", "9">>

DigitVal(c) == (CHOOSE d \in 1..Len(Digits) : Digits[d] = c) - 1

IsDigit(c) == \E d \in 1..Len(Digits) : Digits[d] = c

Scale == 100 * 100

\* re.sub(r'[^\d.-]', '', text)
re_sub_non_numeric(text) ==
    SelectSeq(text, LAMBDA c : IsDigit(c) \/ c \in {".", "-"})

RECURSIVE IntOf(_)
IntOf(ds) ==
    IF ds = <<>> THEN 0
    ELSE IntOf(SubSeq(ds, 1, Len(ds) - 1)) * 10 + DigitVal(ds[Len(ds)])

\* the text without its leading minus sign
Unsigned(t) == IF t # <<>> /\ t[1] = "-" THEN Tail(t) ELSE t

\* float(text) does not raise ValueError, for a text of digits, dots and minus signs
float_parses(t) ==
    /\ \A i \in 1..Len(Unsigned(t)) : Unsigned(t)[i] # "-"
    /\ Cardinality({i \in 1..Len(Unsigned(t)) : Unsigned(t)[i] = "."}) <= 1
    /\ \E i \in 1..Len(Unsigned(t)) : IsDigit(Unsigned(t)[i])

\* float(text), in units of 1/Scale
float(t) ==
    LET body == Unsigned(t)
        dots == {i \in 1..Len(body) : body[i] = "."}
        dot  == IF dots = {} THEN Len(body) + 1 ELSE CHOOSE i \in dots : TRUE
        frac == SubSeq(body, dot + 1, Len(body)) \o <<"0", "0", "0", "0">>
        magnitude == IntOf(SubSeq(body, 1, dot - 1)) * Scale + IntOf(SubSeq(frac, 1, 4))
    IN  IF t # <<>> /\ t[1] = "-" THEN 0 - magnitude ELSE magnitude

safe_float(value) ==
    IF value = None THEN 0
    ELSE LET cleaned_value == re_sub_non_numeric(str(value))
         IN  IF cleaned_value # <<>> /\ float_parses(cleaned_value)
             THEN float(cleaned_value) ELSE 0

\* amount = safe_float(amount_val); if 'USC' in amount_val: amount /= 100
usc_amount(raw) ==
    LET amount_val == upper(safe_str(raw))
    IN  IF Contains(sUSC, amount_val) THEN safe_float(amount_val) \div 100
        ELSE safe_float(amount_val)

(***************************************************************************)
(* ColumnResolver.                                                         *)
(***************************************************************************)
\* the result None of find_column_index; indices are 0-based as in the source
NoIndex == -1

Min(S) == CHOOSE x \in S : \A y \in S : x <= y

Max(S) == CHOOSE x \in S : \A y \in S : x >= y

\* a variant that tries the partial matches before the exact match
find_column_index_partial_first(headers, search_terms, exact_match) ==
    LET exact == {i \in 1..Len(headers) :
                     upper(strip(headers[i])) = upper(exact_match)}
        partial == {i \in 1..Len(headers) :
                       \E t \in 1..Len(search_terms) :
                           Contains(upper(search_terms[t]), upper(strip(headers[i])))}
    IN  IF partial # {} THEN Min(partial) - 1
        ELSE IF truthy(exact_match) /\ exact # {} THEN Min(exact) - 1
        ELSE NoIndex

\* a variant whose partial search goes term by term: the first term that some
\* header contains decides
find_column_index_term_first(headers, search_terms, exact_match) ==
    LET exact == {i \in 1..Len(headers) :
                     upper(strip(headers[i])) = upper(exact_match)}
        holders(t) == {i \in 1..Len(headers) :
                          Contains(upper(search_terms[t]), upper(strip(headers[i])))}
        terms == {t \in 1..Len(search_terms) : holders(t) # {}}
    IN  IF truthy(exact_match) /\ exact # {} THEN Min(exact) - 1
        ELSE IF terms # {} THEN Min(holders(Min(terms))) - 1
        ELSE NoIndex

find_column_index(headers, search_terms, exact_match) ==
    LET exact == {i \in 1..Len(headers) :
                     upper(strip(headers[i])) = upper(exact_match)}
        partial == {i \in 1..Len(headers) :
                       \E t \in 1..Len(search_terms) :
                           Contains(upper(search_terms[t]), upper(strip(headers[i])))}
    IN  IF truthy(exact_match) /\ exact # {} THEN Min(exact) - 1
        ELSE IF partial # {} THEN Min(partial) - 1
        ELSE NoIndex

\* str.count of a one-character text
count(line, char) == Cardinality({i \in 1..Len(line) : line[i] = char})

\* a rule whose ties favour the comma, then the semicolon
detect_separator_comma_first(line) ==
    LET tab_count == count(line, "\t")
        comma_count == count(line, ",")
        semicolon_count == count(line, ";")
    IN  IF comma_count >= tab_count /\ comma_count >= semicolon_count THEN ","
        ELSE IF semicolon_count >= tab_count THEN ";"
        ELSE "\t"

\* a rule that needs at least one separator before it leaves the comma
detect_separator_zero_comma(line) ==
    LET tab_count == count(line, "\t")
        comma_count == count(line, ",")
        semicolon_count == count(line, ";")
    IN  IF tab_count + comma_count + semicolon_count = 0 THEN ","
        ELSE IF tab_count >= comma_count /\ tab_count >= semicolon_count THEN "\t"
        ELSE IF semicolon_count >= comma_count THEN ";"
        ELSE ","

detect_separator(line) ==
    LET tab_count == count(line, "\t")
        comma_count == count(line, ",")
        semicolon_count == count(line, ";")
    IN  IF tab_count >= comma_count /\ tab_count >= semicolon_count THEN "\t"
        ELSE IF semicolon_count >= comma_count THEN ";"
        ELSE ","

\* detect_separator of run.py
run_detect_separator(line) ==
    LET tab_count == count(line, "\t")
        comma_count == count(line, ",")
        semicolon_count == count(line, ";")
    IN  IF tab_count >= comma_count /\ tab_count >= semicolon_count THEN "\t"
        ELSE IF semicolon_count >= comma_count THEN ";"
        ELSE ","

(***************************************************************************)
(* Decoded files.  A file is [readable, headers, rows]; a row is           *)
(* [cells, fault], cells being rectangular with the header row.  fault     *)
(* marks a row whose processing raises inside the per-row try block.       *)
(***************************************************************************)
\* read_file_with_encoding raises ValueError when no encoding parses
read_file_with_encoding_fails(file) == ~file.readable

\* DataFrame.empty: no data row or no column
data_empty_never(file) == FALSE

data_empty(file) == Len(file.rows) = 0 \/ Len(file.headers) = 0

(***************************************************************************)
(* The database session.  A query sees the committed rows and, when the    *)
(* session autoflushes, the rows added earlier in the same call.           *)
(***************************************************************************)
\* db.session is the Flask-SQLAlchemy scoped session, which autoflushes before a query
autoflush == TRUE

KeyOf(kind, rec) ==
    CASE kind = "payment" -> rec.tx_id
      [] kind = "rebate"  -> rec.transaction_id
      [] kind = "crmw"    -> rec.request_id
      [] kind = "crmd"    -> rec.request_id
      [] kind = "account" -> rec.login

Visible(ctx, st) == ctx.table \o (IF ctx.autoflush THEN st.pending ELSE <<>>)

\* Model.query.filter_by(<key>=key).first() is not None  (no owner filter)
existing_never(kind, ctx, st, key) == FALSE

existing(kind, ctx, st, key) ==
    \E i \in 1..Len(Visible(ctx, st)) : KeyOf(kind, Visible(ctx, st)[i]) = key

\* db.session.add(record); added_count += 1
session_add(st, rec) ==
    [st EXCEPT !.pending = Append(@, rec), !.added = @ + 1]

\* a continue that does not count the row
skip_uncounted(st) == st

\* skipped_count += 1; continue
skip(st) == [st EXCEPT !.skipped = @ + 1]

\* a commit that writes the pending records over the stored ones
session_commit_pending_only(working, pending) == pending

\* db.session.commit()
session_commit(working, pending) == working \o pending

\* db.session.rollback()
session_rollback_keeps(committed, working, pending) == working \o pending

session_rollback(committed, working, pending) == committed

RECURSIVE SelectSeq2(_, _, _)
SelectSeq2(s, user, keep) ==
    IF s = <<>> THEN <<>>
    ELSE IF (Head(s).user_id = user) = keep
         THEN <<Head(s)>> \o SelectSeq2(Tail(s), user, keep)
         ELSE SelectSeq2(Tail(s), user, keep)

\* AccountList.query.filter_by(user_id=current_user.id).delete()
delete_for_user_none(table, user) == table

delete_for_user(table, user) == SelectSeq2(table, user, FALSE)

(***************************************************************************)
(* Results of a call.                                                      *)
(***************************************************************************)
Raised(error, missing, table) ==
    [status |-> "raised", error |-> error, missing |-> missing,
     added_rows |-> 0, skipped_rows |-> 0, total_rows |-> 0, deleted |-> 0,
     table |-> table]

Returned(st, total, deleted, table) ==
    [status |-> "returned", error |-> "none", missing |-> <<>>,
     added_rows |-> st.added, skipped_rows |-> st.skipped, total_rows |-> total,
     deleted |-> deleted, table |-> table]

st0 == [pending |-> <<>>, added |-> 0, skipped |-> 0]

\* the tail of every ingester: commit and return the counts, or roll back and re-raise
Finish(st, total, deleted, committed, working, commit_ok) ==
    IF commit_ok
    THEN Returned(st, total, deleted, session_commit(working, st.pending))
    ELSE Raised("commit", <<>>, session_rollback(committed, working, st.pending))

(***************************************************************************)
(* Row processing: the body of the per-row try block of each ingester.     *)
(***************************************************************************)
\* row_dict.get(name, default) over  row_dict[header.strip()] = row[j]
row_dict_get(headers, cells, name, default) ==
    LET hits == {j \in 1..Len(headers) : j <= Len(cells) /\ strip(headers[j]) = name}
    IN  IF hits = {} THEN default ELSE cells[Max(hits)]

\* the two skip predicates of process_payment_data
is_balance_exact_case(raw_gateway) == str(raw_gateway) = sBALANCE

is_balance(raw_gateway) == upper(str(raw_gateway)) = sBALANCE

status_not_done(raw_status) == upper(str(raw_status)) # sDONE

\* a derivation that knows the deposit categories only
sheet_category_deposit_only(tx_type, pg_name) ==
    IF Contains(sSETTLEMENT, pg_name) THEN "Settlement Deposit" ELSE "M2p Deposit"

sheet_category(tx_type, pg_name) ==
    IF tx_type = sDEPOSIT
    THEN IF Contains(sSETTLEMENT, pg_name) THEN "Settlement Deposit" ELSE "M2p Deposit"
    ELSE IF Contains(sSETTLEMENT, pg_name) THEN "Settlement Withdraw" ELSE "M2p Withdraw"

payment_row(ctx, cells, st) ==
    LET tx_id   == strip(str(row_dict_get(ctx.headers, cells, sTransactionID, <<>>)))
        rstatus == row_dict_get(ctx.headers, cells, sStatus, <<>>)
        rpg     == row_dict_get(ctx.headers, cells, sPaymentGateway, <<>>)
        status  == upper(str(rstatus))
        pg_name == upper(str(rpg))
        tx_type == upper(str(row_dict_get(ctx.headers, cells, sType, <<>>)))
    IN  IF ~truthy(tx_id) THEN skip(st)
        ELSE IF is_balance(rpg) THEN skip(st)
        ELSE IF status_not_done(rstatus) THEN skip(st)
        ELSE IF existing("payment", ctx, st, tx_id) THEN skip(st)
        ELSE session_add(st,
                 [user_id |-> ctx.user, tx_id |-> tx_id, status |-> status,
                  type |-> tx_type,
                  payment_gateway |->
                      safe_str(row_dict_get(ctx.headers, cells, sPaymentGateway, None)),
                  sheet_category |-> sheet_category(tx_type, pg_name)])

rebate_row(ctx, cells, st) ==
    IF Len(cells) <= ctx.idx.tx_id THEN skip(st)
    ELSE LET tx_id == strip(str(or_empty(cells[ctx.idx.tx_id + 1])))
         IN  IF ~truthy(tx_id) THEN skip(st)
             ELSE IF existing("rebate", ctx, st, tx_id) THEN skip(st)
             ELSE session_add(st, [user_id |-> ctx.user,
                                   transaction_id |-> safe_str(tx_id)])

crm_withdrawals_row(ctx, cells, st) ==
    LET max_idx == Max({ctx.idx.req_time, ctx.idx.trading_account,
                        ctx.idx.amount, ctx.idx.request_id})
    IN  IF Len(cells) <= max_idx THEN skip(st)
        ELSE LET request_id == strip(str(or_empty(cells[ctx.idx.request_id + 1])))
             IN  IF ~truthy(request_id) THEN skip(st)
                 ELSE IF existing("crmw", ctx, st, request_id) THEN skip(st)
                 ELSE session_add(st,
                          [user_id |-> ctx.user, request_id |-> safe_str(request_id),
                           withdrawal_amount |-> usc_amount(cells[ctx.idx.amount + 1])])

crm_deposit_row(ctx, cells, st) ==
    LET max_idx == Max({ctx.idx.req, ctx.idx.acc, ctx.idx.amt, ctx.idx.id})
    IN  IF Len(cells) <= max_idx THEN skip(st)
        ELSE LET request_id == strip(str(or_empty(cells[ctx.idx.id + 1])))
             IN  IF ~truthy(request_id) THEN skip(st)
                 ELSE IF existing("crmd", ctx, st, request_id) THEN skip(st)
                 ELSE session_add(st,
                          [user_id |-> ctx.user, request_id |-> safe_str(request_id),
                           trading_amount |-> usc_amount(cells[ctx.idx.amt + 1])])

account_row(ctx, cells, st) ==
    LET max_idx == Max({ctx.idx.login, ctx.idx.name, ctx.idx.group})
    IN  IF Len(cells) <= max_idx THEN skip(st)
        ELSE LET login == safe_str(cells[ctx.idx.login + 1])
                 group == safe_str(cells[ctx.idx.group + 1])
             IN  IF ~truthy(login) THEN skip(st)
                 ELSE session_add(st, [user_id |-> ctx.user, login |-> login,
                                       group |-> group,
                                       is_welcome_bonus |-> (group = sWelcomeGroup)])

row_body(kind, ctx, cells, st) ==
    CASE kind = "payment" -> payment_row(ctx, cells, st)
      [] kind = "rebate"  -> rebate_row(ctx, cells, st)
      [] kind = "crmw"    -> crm_withdrawals_row(ctx, cells, st)
      [] kind = "crmd"    -> crm_deposit_row(ctx, cells, st)
      [] kind = "account" -> account_row(ctx, cells, st)

\* try: <row body>  except Exception: skipped_count += 1; continue
try_row(kind, ctx, row, st) ==
    IF row.fault THEN skip(st) ELSE row_body(kind, ctx, row.cells, st)

\* a loop in which the first row error ends the batch
RECURSIVE row_loop_abort(_, _, _, _)
row_loop_abort(kind, ctx, rows, st) ==
    IF rows = <<>> THEN st
    ELSE IF Head(rows).fault THEN skip(st)
    ELSE row_loop_abort(kind, ctx, Tail(rows), try_row(kind, ctx, Head(rows), st))

\* for i, row in enumerate(rows): ...
RECURSIVE row_loop(_, _, _, _)
row_loop(kind, ctx, rows, st) ==
    IF rows = <<>> THEN st
    ELSE row_loop(kind, ctx, Tail(rows), try_row(kind, ctx, Head(rows), st))

(***************************************************************************)
(* The five ingesters, as functions of the file, the owner, the committed  *)
(* table, the session's autoflush setting and the outcome of the commit.   *)
(***************************************************************************)
Ctx(user, headers, table, af, idx) ==
    [user |-> user, headers |-> headers, table |-> table, autoflush |-> af, idx |-> idx]

\* missing.append(name) for every index that is None, in the order of the source
MissingNames(pairs) ==
    LET RECURSIVE Collect(_)
        Collect(k) ==
            IF k > Len(pairs) THEN <<>>
            ELSE (IF pairs[k][1] = NoIndex THEN <<pairs[k][2]>> ELSE <<>>) \o Collect(k + 1)
    IN  Collect(1)

process_payment_data_result(file, user, table, af, commit_ok) ==
    IF read_file_with_encoding_fails(file) THEN Raised("unreadable", <<>>, table)
    ELSE IF data_empty(file) \/ Len(file.rows) < 1 THEN Raised("empty", <<>>, table)
    ELSE Finish(row_loop("payment", Ctx(user, file.headers, table, af, <<>>),
                         file.rows, st0),
                Len(file.rows), 0, table, table, commit_ok)

process_ib_rebate_result(file, user, table, af, commit_ok) ==
    IF read_file_with_encoding_fails(file) THEN Raised("unreadable", <<>>, table)
    ELSE IF data_empty(file) THEN Raised("empty", <<>>, table)
    ELSE LET tx_id_idx == find_column_index(file.headers,
                              <<sTransactionID, sTRANSACTION_ID>>, sTransactionID)
             rebate_idx == find_column_index(file.headers, <<sRebate>>, sRebate)
             rebate_time_idx == find_column_index(file.headers,
                              <<sRebateTime, sREBATE_TIME>>, sRebateTime)
         IN  IF tx_id_idx = NoIndex
             THEN Raised("missing_columns", <<"Transaction ID">>, table)
             ELSE IF rebate_time_idx = NoIndex
             THEN Raised("missing_columns", <<"Rebate Time">>, table)
             ELSE Finish(row_loop("rebate",
                             Ctx(user, file.headers, table, af,
                                 [tx_id |-> tx_id_idx, rebate |-> rebate_idx,
                                  rebate_time |-> rebate_time_idx]),
                             file.rows, st0),
                         Len(file.rows), 0, table, table, commit_ok)

process_crm_withdrawals_result(file, user, table, af, commit_ok) ==
    IF read_file_with_encoding_fails(file) THEN Raised("unreadable", <<>>, table)
    ELSE IF data_empty(file) THEN Raised("empty", <<>>, table)
    ELSE LET req_time_idx == find_column_index(file.headers,
                                 <<sReviewTime, sREVIEW_TIME>>, <<>>)
             trading_account_idx == find_column_index(file.headers,
                                 <<sTradingAccount, sTRADING_ACCOUNT>>, <<>>)
             amount_idx == find_column_index(file.headers,
                                 <<sWithdrawalAmount, sWITHDRAWAL_AMOUNT>>, <<>>)
             request_id_idx == find_column_index(file.headers,
                                 <<sRequestID, sREQUEST_ID>>, <<>>)
             missing == MissingNames(<< <<req_time_idx, "Review Time">>,
                                        <<trading_account_idx, "Trading Account">>,
                                        <<amount_idx, "Withdrawal Amount">>,
                                        <<request_id_idx, "Request ID">> >>)
         IN  IF NoIndex \in {req_time_idx, trading_account_idx, amount_idx, request_id_idx}
             THEN Raised("missing_columns", missing, table)
             ELSE Finish(row_loop("crmw",
                             Ctx(user, file.headers, table, af,
                                 [req_time |-> req_time_idx,
                                  trading_account |-> trading_account_idx,
                                  amount |-> amount_idx, request_id |-> request_id_idx]),
                             file.rows, st0),
                         Len(file.rows), 0, table, table, commit_ok)

process_crm_deposit_result(file, user, table, af, commit_ok) ==
    IF read_file_with_encoding_fails(file) THEN Raised("unreadable", <<>>, table)
    ELSE IF data_empty(file) THEN Raised("empty", <<>>, table)
    ELSE LET req_idx == find_column_index(file.headers,
                            <<sRequestTime, sREQUEST_TIME>>, <<>>)
             acc_idx == find_column_index(file.headers,
                            <<sTradingAccount, sTRADING_ACCOUNT>>, <<>>)
             amt_idx == find_column_index(file.headers,
                            <<sTradingAmount, sTRADING_AMOUNT>>, <<>>)
             id_idx == find_column_index(file.headers,
                            <<sRequestID, sREQUEST_ID>>, <<>>)
             pay_method_idx == find_column_index(file.headers,
                            <<sPaymentMethod, sPAYMENT_METHOD>>, <<>>)
             client_id_idx == find_column_index(file.headers,
                            <<sClientID, sCLIENT_ID>>, <<>>)
             name_idx == find_column_index(file.headers, <<sName>>, sName)
             missing == MissingNames(<< <<req_idx, "Request Time">>,
                                        <<acc_idx, "Trading Account">>,
                                        <<amt_idx, "Trading Amount">>,
                                        <<id_idx, "Request ID">> >>)
         IN  IF NoIndex \in {req_idx, acc_idx, amt_idx, id_idx}
             THEN Raised("missing_columns", missing, table)
             ELSE Finish(row_loop("crmd",
                             Ctx(user, file.headers, table, af,
                                 [req |-> req_idx, acc |-> acc_idx, amt |-> amt_idx,
                                  id |-> id_idx, pay_method |-> pay_method_idx,
                                  client_id |-> client_id_idx, name |-> name_idx]),
                             file.rows, st0),
                         Len(file.rows), 0, table, table, commit_ok)

\* data.iloc[1:] when the first cell of the first row contains METATRADER
\* a variant that drops every row whose first cell holds the marker
drop_description_line_anywhere(rows) ==
    SelectSeq(rows, LAMBDA row : ~Contains(sMETATRADER, upper(str(row.cells[1]))))

drop_description_line(rows) ==
    IF Len(rows) > 0 /\ Contains(sMETATRADER, upper(str(rows[1].cells[1])))
    THEN Tail(rows) ELSE rows

process_account_list_result(file, user, table, af, commit_ok) ==
    IF read_file_with_encoding_fails(file) THEN Raised("unreadable", <<>>, table)
    ELSE IF data_empty(file) THEN Raised("empty", <<>>, table)
    ELSE LET rows == drop_description_line(file.rows)
             login_idx == find_column_index(file.headers, <<sLogin>>, sLogin)
             name_idx == find_column_index(file.headers, <<sName>>, sName)
             group_idx == find_column_index(file.headers, <<sGroup>>, sGroup)
             missing == MissingNames(<< <<login_idx, "Login">>,
                                        <<name_idx, "Name">>,
                                        <<group_idx, "Group">> >>)
             working == delete_for_user(table, user)
         IN  IF NoIndex \in {login_idx, name_idx, group_idx}
             THEN Raised("missing_columns", missing, table)
             ELSE Finish(row_loop("account",
                             Ctx(user, file.headers, working, af,
                                 [login |-> login_idx, name |-> name_idx,
                                  group |-> group_idx]),
                             rows, st0),
                         Len(rows), Len(table) - Len(working), table, working, commit_ok)

(***************************************************************************)
(* The ingesters of run.py for payments and account lists.  They have no   *)
(* per-row try block and no rollback: an error in a row ends the call and  *)
(* nothing of the call is committed.  They return the added count only.    *)
(***************************************************************************)
\* read_csv raises ValueError when no encoding parses
read_csv_fails(file) == ~file.readable

\* Model.query.filter_by(<key>=key, user_id=current_user.id).first()
existing_for_user(kind, ctx, st, key) ==
    \E i \in 1..Len(Visible(ctx, st)) :
        /\ KeyOf(kind, Visible(ctx, st)[i]) = key
        /\ Visible(ctx, st)[i].user_id = ctx.user

\* the conditional expression that picks from _SHEET_CATEGORIES
run_sheet_category(ty, pg) ==
    IF ty = sDEPOSIT /\ Contains(sSETTLEMENT, pg) THEN "Settlement Deposit"
    ELSE IF ty = sDEPOSIT THEN "M2p Deposit"
    ELSE IF ty = sWITHDRAW /\ Contains(sSETTLEMENT, pg) THEN "Settlement Withdraw"
    ELSE "M2p Withdraw"

run_payment_row(ctx, cells, st) ==
    LET tx     == strip(str(row_dict_get(ctx.headers, cells, sTransactionID, <<>>)))
        status == upper(str(row_dict_get(ctx.headers, cells, sStatus, <<>>)))
        pg     == upper(str(row_dict_get(ctx.headers, cells, sPaymentGateway, <<>>)))
        ty     == upper(str(row_dict_get(ctx.headers, cells, sType, <<>>)))
    IN  IF ~truthy(tx) \/ pg = sBALANCE \/ status # sDONE THEN st
        ELSE IF existing_for_user("payment", ctx, st, tx) THEN st
        ELSE session_add(st,
                 [user_id |-> ctx.user, tx_id |-> tx, status |-> status, type |-> ty,
                  payment_gateway |->
                      row_dict_get(ctx.headers, cells, sPaymentGateway, None),
                  sheet_category |-> run_sheet_category(ty, pg)])

\* row.get(label, '') on a row of the DataFrame: the column of that exact label
row_get(headers, cells, label, default) ==
    LET hits == {j \in 1..Len(headers) : j <= Len(cells) /\ headers[j] = label}
    IN  IF hits = {} THEN default ELSE cells[Min(hits)]

run_account_row(ctx, cells, st) ==
    LET login == strip(str(row_get(ctx.headers, cells, sLogin, <<>>)))
        grp   == strip(str(row_get(ctx.headers, cells, sGroup, <<>>)))
    IN  IF ~truthy(login) THEN st
        ELSE session_add(st, [user_id |-> ctx.user, login |-> login, group |-> grp,
                              is_welcome_bonus |-> (grp = sWelcomeGroup)])

\* for _, row in df.iterrows(): ...
RECURSIVE run_row_loop(_, _, _, _)
run_row_loop(kind, ctx, rows, st) ==
    IF rows = <<>> THEN st
    ELSE run_row_loop(kind, ctx, Tail(rows),
             IF kind = "run_payment" THEN run_payment_row(ctx, Head(rows).cells, st)
             ELSE run_account_row(ctx, Head(rows).cells, st))

\* the call ends in an exception and commits nothing, or commits and returns added
run_finish(kind, ctx, rows, deleted, committed, commit_ok) ==
    IF \E i \in 1..Len(rows) : rows[i].fault
    THEN Raised("row_error", <<>>, committed)
    ELSE IF ~commit_ok THEN Raised("commit", <<>>, committed)
    ELSE LET st == run_row_loop(kind, ctx, rows, st0)
         IN  [Returned(st, 0, deleted, session_commit(ctx.table, st.pending))
                 EXCEPT !.skipped_rows = 0]

run_process_payment_result(file, user, table, af, commit_ok) ==
    IF read_csv_fails(file) THEN Raised("unreadable", <<>>, table)
    ELSE run_finish("run_payment", Ctx(user, file.headers, table, af, <<>>),
                    file.rows, 0, table, commit_ok)

\* df.iloc[0,0].upper() raises on a table without rows and on a cell that is no text
first_cell_raises(file) ==
    \/ Len(file.rows) = 0
    \/ Len(file.headers) = 0
    \/ file.rows[1].cells[1] = NaN

run_process_account_list_result(file, user, table, af, commit_ok) ==
    IF read_csv_fails(file) THEN Raised("unreadable", <<>>, table)
    ELSE IF first_cell_raises(file) THEN Raised("first_cell", <<>>, table)
    ELSE LET rows == IF Contains(sMETATRADER, upper(file.rows[1].cells[1]))
                     THEN Tail(file.rows) ELSE file.rows
             working == delete_for_user(table, user)
         IN  run_finish("run_account", Ctx(user, file.headers, working, af, <<>>),
                        rows, Len(table) - Len(working), table, commit_ok)

\* str.split(): the maximal runs of non-whitespace characters
RECURSIVE split(_)
split(text) ==
    LET t == lstrip(text)
        ends == {i \in 1..Len(t) : t[i] \in Whitespace}
        stop == IF ends = {} THEN Len(t) + 1 ELSE Min(ends)
    IN  IF t = <<>> THEN <<>>
        ELSE <<SubSeq(t, 1, stop - 1)>> \o split(SubSeq(t, stop, Len(t)))

\* the text handed to float() for the trading amount by process_crm_deposit of run.py
run_deposit_amount_text(amt_raw) ==
    IF Contains(sUSC, upper(amt_raw))
    THEN re_sub_non_numeric(IF Len(split(amt_raw)) > 1 THEN split(amt_raw)[2] ELSE <<"0">>)
    ELSE IF re_sub_non_numeric(amt_raw) = <<>> THEN <<"0">>
         ELSE re_sub_non_numeric(amt_raw)

\* the state of the loop of an ingester of run.py: failed once a row has raised
run_st0 == [pending |-> <<>>, added |-> 0, skipped |-> 0, failed |-> FALSE]

run_crm_deposit_row(ctx, cells, st) ==
    LET req     == strip(str(row_get(ctx.headers, cells, sRequestID, <<>>)))
        amt_raw == str(row_get(ctx.headers, cells, sTradingAmount, <<>>))
        num     == run_deposit_amount_text(amt_raw)
    IN  IF ~truthy(req) \/ existing_for_user("crmd", ctx, st, req) THEN st
        ELSE IF ~float_parses(num) THEN [st EXCEPT !.failed = TRUE]
        ELSE session_add(st,
                 [user_id |-> ctx.user, request_id |-> req,
                  trading_amount |-> IF Contains(sUSC, upper(amt_raw))
                                     THEN float(num) \div 100 ELSE float(num)])

\* for _, row in df.iterrows(): ...  ended by the first row that raises
RECURSIVE run_crm_deposit_loop(_, _, _)
run_crm_deposit_loop(ctx, rows, st) ==
    IF rows = <<>> \/ st.failed THEN st
    ELSE run_crm_deposit_loop(ctx, Tail(rows),
             IF Head(rows).fault THEN [st EXCEPT !.failed = TRUE]
             ELSE run_crm_deposit_row(ctx, Head(rows).cells, st))

run_process_crm_deposit_result(file, user, table, af, commit_ok) ==
    IF read_csv_fails(file) THEN Raised("unreadable", <<>>, table)
    ELSE LET st == run_crm_deposit_loop(Ctx(user, file.headers, table, af, <<>>),
                                        file.rows, run_st0)
         IN  IF st.failed THEN Raised("row_error", <<>>, table)
             ELSE IF ~commit_ok THEN Raised("commit", <<>>, table)
             ELSE [Returned(st, 0, 0, session_commit(table, st.pending))
                      EXCEPT !.skipped_rows = 0]

(***************************************************************************)
(* Reports of app/stage2_reports_enhanced.py.  A datetime is a number of   *)
(* seconds, an absent column value is None, and a query returns the rows   *)
(* of its table in table order.                                            *)
(***************************************************************************)
Abs(n) == IF n < 0 THEN 0 - n ELSE n

\* a nullable numeric column holds None or a number; the number is kept tagged
Some(n) == <<"value", n>>

ValueOf(column) == column[2]

NoRange == [start_date |-> None, end_date |-> None]

DateRange(start_date, end_date) ==
    [start_date |-> Some(start_date), end_date |-> Some(end_date)]

\* a filter that excludes the two ends of the range
filter_by_date_range_exclusive(rows, range, date_column) ==
    IF range.start_date # None /\ range.end_date # None
    THEN SelectSeq(rows, LAMBDA d : /\ d[date_column] # None
                                    /\ ValueOf(d[date_column]) > ValueOf(range.start_date)
                                    /\ ValueOf(d[date_column]) < ValueOf(range.end_date))
    ELSE rows

\* filter_by_date_range: the filter applies only when both ends are given
filter_by_date_range(rows, range, date_column) ==
    IF range.start_date # None /\ range.end_date # None
    THEN SelectSeq(rows, LAMBDA d : /\ d[date_column] # None
                                    /\ ValueOf(d[date_column]) >= ValueOf(range.start_date)
                                    /\ ValueOf(d[date_column]) <= ValueOf(range.end_date))
    ELSE rows

\* Model.query.filter_by(user_id=current_user.id)
filter_by_user(table, user) == SelectSeq(table, LAMBDA d : d.user_id = user)

\* the Python expression  text or ''  on a column value
text_or_empty(value) == IF value = None THEN <<>> ELSE value

\* float(amount or 0)
float_or_zero(value) == IF value = None THEN 0 ELSE ValueOf(value)

crm_normalized(crm_deposits) ==
    [k \in 1..Len(crm_deposits) |->
        LET d == crm_deposits[k]
        IN  [date |-> d.request_time,
             client_id |-> lower(strip(text_or_empty(d.client_id))),
             name |-> text_or_empty(d.name),
             amount |-> float_or_zero(d.trading_amount),
             payment_method |-> lower(strip(text_or_empty(d.payment_method))),
             source |-> "CRM Deposit", id |-> d.id]]

client_normalized(client_deposits) ==
    [k \in 1..Len(client_deposits) |->
        LET d == client_deposits[k]
        IN  [date |-> d.created,
             account |-> lower(strip(text_or_empty(d.trading_account))),
             amount |-> float_or_zero(d.final_amount),
             source |-> "M2p Deposit", id |-> d.id]]

\* 3.5 * 3600 seconds
MaxTimeDiff == 12600

\* a window that excludes a difference of exactly 3.5 hours and of exactly 1.0
is_match_strict(crm_row, client_row) ==
    /\ crm_row.date # None /\ client_row.date # None
    /\ Abs(ValueOf(crm_row.date) - ValueOf(client_row.date)) < MaxTimeDiff
    /\ Contains(crm_row.client_id, client_row.account)
    /\ Abs(crm_row.amount - client_row.amount) < 1 * Scale

\* a test that an empty client id never passes
is_match_nonempty_id(crm_row, client_row) ==
    /\ crm_row.date # None /\ client_row.date # None
    /\ Abs(ValueOf(crm_row.date) - ValueOf(client_row.date)) <= MaxTimeDiff
    /\ crm_row.client_id # <<>>
    /\ Contains(crm_row.client_id, client_row.account)
    /\ Abs(crm_row.amount - client_row.amount) <= 1 * Scale

\* the test of lines 231-235 on a CRM row and a payment row
is_match(crm_row, client_row) ==
    /\ crm_row.date # None /\ client_row.date # None
    /\ Abs(ValueOf(crm_row.date) - ValueOf(client_row.date)) <= MaxTimeDiff
    /\ Contains(crm_row.client_id, client_row.account)
    /\ Abs(crm_row.amount - client_row.amount) <= 1 * Scale

\* a test that never finds a payment row taken
already_matched_never(client_row, matched) == FALSE

\* if client_row['id'] in matched: continue
already_matched(client_row, matched) == client_row.id \in matched

\* a comparison with the literal that keeps the case of the method
is_topchange_exact(payment_method) == payment_method = <<"T","o","p","C","h","a","n","g","e">>

\* crm_row['payment_method'] != 'topchange', negated
is_topchange(payment_method) == payment_method = <<"t","o","p","c","h","a","n","g","e">>

\* strftime('%Y-%m-%d'): the day of the datetime, '' when there is none
strftime_day(date) == IF date = None THEN <<>> ELSE <<ValueOf(date) \div 86400>>

\* f"{amount:.2f}": the amount rounded to hundredths
format_2f(amount) ==
    IF amount >= 0 THEN (amount + Scale \div 200) \div (Scale \div 100)
    ELSE 0 - ((0 - amount + Scale \div 200) \div (Scale \div 100))

crm_entry(crm_row) ==
    [source |-> crm_row.source, date |-> strftime_day(crm_row.date),
     client_id |-> crm_row.client_id, account |-> <<>>,
     amount |-> format_2f(crm_row.amount), name |-> crm_row.name,
     confirmed |-> "N", id |-> crm_row.id]

client_entry(client_row) ==
    [source |-> client_row.source, date |-> strftime_day(client_row.date),
     client_id |-> <<>>, account |-> client_row.account,
     amount |-> format_2f(client_row.amount), name |-> <<>>,
     confirmed |-> "N", id |-> client_row.id]

\* the loop over crm_normalized from row k on; pairs records which payment row
\* each matched CRM row took
RECURSIVE crm_loop(_, _, _, _)
crm_loop(crm, client, k, acc) ==
    IF k > Len(crm) THEN acc
    ELSE LET hits == {j \in 1..Len(client) :
                         /\ ~already_matched(client[j], acc.matched)
                         /\ is_match(crm[k], client[j])}
         IN  crm_loop(crm, client, k + 1,
                 IF hits # {}
                 THEN [acc EXCEPT !.matched = @ \cup {client[Min(hits)].id},
                                  !.pairs = Append(@, <<k, Min(hits)>>)]
                 ELSE IF ~is_topchange(crm[k].payment_method)
                 THEN [acc EXCEPT !.unmatched = Append(@, crm_entry(crm[k]))]
                 ELSE acc)

\* the second loop, put before the entries of the first one
client_loop_first(client, acc) ==
    [acc EXCEPT !.unmatched =
        [k \in 1..Len(SelectSeq(client, LAMBDA c : c.id \notin acc.matched)) |->
            client_entry(SelectSeq(client, LAMBDA c : c.id \notin acc.matched)[k])] \o @]

\* for client_row in client_normalized: if client_row['id'] not in matched: append
client_loop(client, acc) ==
    [acc EXCEPT !.unmatched = @ \o
        [k \in 1..Len(SelectSeq(client, LAMBDA c : c.id \notin acc.matched)) |->
            client_entry(SelectSeq(client, LAMBDA c : c.id \notin acc.matched)[k])]]

compare_crm_and_client_deposits_result(crm_table, payment_table, user, range) ==
    LET crm_deposits == filter_by_date_range(filter_by_user(crm_table, user),
                                             range, "request_time")
        client_deposits ==
            filter_by_date_range(
                SelectSeq(filter_by_user(payment_table, user),
                          LAMBDA d : d.sheet_category = "M2p Deposit"),
                range, "created")
        crm == crm_normalized(crm_deposits)
        client == client_normalized(client_deposits)
        acc == client_loop(client,
                   crm_loop(crm, client, 1,
                            [matched |-> {}, pairs |-> <<>>, unmatched |-> <<>>]))
    IN  [fn |-> "compare_crm_and_client_deposits", user |-> user, range |-> range,
         crm_normalized |-> crm, client_normalized |-> client,
         matched |-> acc.matched, pairs |-> acc.pairs,
         discrepancies |-> acc.unmatched,
         total_discrepancies |-> Len(acc.unmatched)]

MIN_RECORDS_FOR_CHARTS == 20

MIN_CATEGORIES_WITH_DATA == 3

\* a test on the total alone
sufficient_data_total_only(total_records, categories_with_data) ==
    total_records >= MIN_RECORDS_FOR_CHARTS

sufficient_data(total_records, categories_with_data) ==
    /\ total_records >= MIN_RECORDS_FOR_CHARTS
    /\ categories_with_data >= MIN_CATEGORIES_WITH_DATA

\* query.count() of the owner's records of a table, in the range when one is given
query_count(table, user, range, date_column) ==
    Len(filter_by_date_range(filter_by_user(table, user), range, date_column))

check_data_sufficiency_for_charts_result(store, user, range) ==
    LET payment_count == query_count(store.PaymentData, user, range, "created")
        rebate_count == query_count(store.IBRebate, user, range, "rebate_time")
        crm_withdraw_count ==
            query_count(store.CRMWithdrawals, user, range, "review_time")
        crm_deposit_count == query_count(store.CRMDeposit, user, range, "request_time")
        total_records ==
            payment_count + rebate_count + crm_withdraw_count + crm_deposit_count
        categories_with_data ==
            (IF payment_count > 0 THEN 1 ELSE 0) + (IF rebate_count > 0 THEN 1 ELSE 0)
            + (IF crm_withdraw_count > 0 THEN 1 ELSE 0)
            + (IF crm_deposit_count > 0 THEN 1 ELSE 0)
    IN  [fn |-> "check_data_sufficiency_for_charts", user |-> user, range |-> range,
         sufficient_for_charts |-> sufficient_data(total_records, categories_with_data),
         total_records |-> total_records,
         categories_with_data |-> categories_with_data,
         breakdown |-> [payments |-> payment_count, rebates |-> rebate_count,
                        crm_withdrawals |-> crm_withdraw_count,
                        crm_deposits |-> crm_deposit_count]]

\* the names the import statements of stage2_reports_enhanced.py bind
ImportedNames ==
    {"pd", "datetime", "and_", "or_", "func", "PaymentData", "IBRebate",
     "CRMWithdrawals", "CRMDeposit", "AccountList", "current_user", "traceback", "re"}

\* a module in which every global name the functions read is bound
name_is_bound_always(name) == TRUE

\* reading a global name of the module succeeds; otherwise NameError is raised
name_is_bound(name) == name \in ImportedNames

\* query.with_entities(func.sum(column)).scalar() or 0
RECURSIVE get_sum(_, _)
get_sum(rows, column) ==
    IF rows = <<>> THEN 0
    ELSE float_or_zero(Head(rows)[column]) + get_sum(Tail(rows), column)

\* re.search(r'\d+', text).group(0): the first run of digits, None without a digit
first_digit_run(text) ==
    LET starts == {i \in 1..Len(text) : IsDigit(text[i])}
        start == Min(starts)
        stops == {i \in start..Len(text) : ~IsDigit(text[i])}
    IN  IF starts = {} THEN None
        ELSE SubSeq(text, start, IF stops = {} THEN Len(text) ELSE Min(stops) - 1)

\* _calculate_metrics: the ten sums are computed, then line 49 reads the global db
_calculate_metrics(store, user, range) ==
    LET payments == filter_by_date_range(filter_by_user(store.PaymentData, user),
                                         range, "created")
        rebates == filter_by_date_range(filter_by_user(store.IBRebate, user),
                                        range, "rebate_time")
        withdrawals == filter_by_date_range(filter_by_user(store.CRMWithdrawals, user),
                                            range, "review_time")
        deposits == filter_by_date_range(filter_by_user(store.CRMDeposit, user),
                                         range, "request_time")
        of_category(cats) == SelectSeq(payments, LAMBDA d : d.sheet_category \in cats)
        welcome_logins ==
            {store.AccountList[k].login : k \in
                {n \in 1..Len(store.AccountList) :
                    /\ store.AccountList[n].user_id = user
                    /\ store.AccountList[n].is_welcome_bonus}}
        welcome == SelectSeq(withdrawals,
                       LAMBDA w : first_digit_run(str(text_or_empty(w.trading_account)))
                                      \in welcome_logins)
    IN  IF ~name_is_bound("db") THEN [raised |-> TRUE, error |-> "NameError"]
        ELSE [raised |-> FALSE,
              calculations |->
                  [metric \in {"Total Rebate", "M2p Deposit", "Settlement Deposit",
                               "M2p Withdrawal", "Settlement Withdrawal",
                               "CRM Deposit Total", "CRM Withdraw Total",
                               "Tier Fee Deposit", "Tier Fee Withdraw",
                               "Topchange Deposit Total", "Welcome Bonus Withdrawals"} |->
                      CASE metric = "Total Rebate" -> get_sum(rebates, "rebate")
                        [] metric = "M2p Deposit" ->
                               get_sum(of_category({"M2p Deposit"}), "final_amount")
                        [] metric = "Settlement Deposit" ->
                               get_sum(of_category({"Settlement Deposit"}), "final_amount")
                        [] metric = "M2p Withdrawal" ->
                               get_sum(of_category({"M2p Withdraw"}), "final_amount")
                        [] metric = "Settlement Withdrawal" ->
                               get_sum(of_category({"Settlement Withdraw"}), "final_amount")
                        [] metric = "CRM Deposit Total" -> get_sum(deposits, "trading_amount")
                        [] metric = "CRM Withdraw Total" ->
                               get_sum(withdrawals, "withdrawal_amount")
                        [] metric = "Tier Fee Deposit" ->
                               get_sum(of_category({"M2p Deposit", "Settlement Deposit"}),
                                       "tier_fee")
                        [] metric = "Tier Fee Withdraw" ->
                               get_sum(of_category({"M2p Withdraw", "Settlement Withdraw"}),
                                       "tier_fee")
                        [] metric = "Topchange Deposit Total" ->
                               get_sum(SelectSeq(deposits,
                                           LAMBDA d : lower(text_or_empty(d.payment_method))
                                                          = <<"t","o","p","c","h","a","n","g","e">>),
                                       "trading_amount")
                        [] metric = "Welcome Bonus Withdrawals" ->
                               get_sum(welcome, "withdrawal_amount")]]

\* the order of the rows of the formatted report
metrics_order ==
    <<"Total Rebate", "M2p Deposit", "Settlement Deposit", "M2p Withdrawal",
      "Settlement Withdrawal", "CRM Deposit Total", "Topchange Deposit Total",
      "Tier Fee Deposit", "Tier Fee Withdraw", "Welcome Bonus Withdrawals",
      "CRM Withdraw Total">>

\* the order in which _calculate_metrics fills the calculations map
calculations_order ==
    <<"Total Rebate", "M2p Deposit", "Settlement Deposit", "M2p Withdrawal",
      "Settlement Withdrawal", "CRM Deposit Total", "CRM Withdraw Total",
      "Tier Fee Deposit", "Tier Fee Withdraw", "Topchange Deposit Total",
      "Welcome Bonus Withdrawals">>

\* generate_final_report: the sufficiency check, then one of the two report
\* builders, both of which start with _calculate_metrics
generate_final_report_result(store, user, range) ==
    LET data_check == check_data_sufficiency_for_charts_result(store, user, range)
        metrics == _calculate_metrics(store, user, range)
    IN  IF metrics.raised
        THEN [fn |-> "generate_final_report", user |-> user, range |-> range,
              status |-> "raised", error |-> metrics.error]
        ELSE [fn |-> "generate_final_report", user |-> user, range |-> range,
              status |-> "returned", error |-> "none",
              report_data |->
                  LET order == IF data_check.sufficient_for_charts
                               THEN calculations_order ELSE metrics_order
                  IN  (IF range.start_date # None /\ range.end_date # None
                       THEN << <<"Date Range", "range">>, <<"", "">> >> ELSE <<>>)
                      \o [k \in 1..Len(order) |->
                             <<order[k], format_2f(metrics.calculations[order[k]])>>],
              calculations |-> metrics.calculations,
              formatted_table |-> ~data_check.sufficient_for_charts]

(***************************************************************************)
(* Inputs: the owners and the files a call may be given.                   *)
(***************************************************************************)
\* values of current_user.id
Users == {1, 2}

k1 == <<"k","1">>

k1sp == <<" ","k","1">>

k2 == <<"k","2"," ">>

blank == <<" ">>

x == <<"x">>

m2p == <<"m","2","p">>

sFoo == <<"F","o","o">>

sBar == <<"B","a","r">>

\* the runs of at most n consecutive rows of a sample export
Windows(sample, n) ==
    {SubSeq(sample, i, j) : <<i, j>> \in
        {w \in (1..(Len(sample) + 1)) \X (0..Len(sample)) :
            w[2] >= w[1] - 1 /\ w[2] - w[1] + 1 <= n}}

Row(cells) == [cells |-> cells, fault |-> FALSE]

Faulty(cells) == [cells |-> cells, fault |-> TRUE]

File(headers, rows) == [readable |-> TRUE, headers |-> headers, rows |-> rows]

Unreadable == [readable |-> FALSE, headers |-> <<>>, rows |-> <<>>]

PaymentHeaders == <<sTransactionID, sStatus, sPaymentGateway, sType>>

PaymentSample ==
    << Row(<<k1, sDONE, m2p, sDEPOSIT>>),
       Row(<<k1sp, sDONE, m2p, sDEPOSIT>>),
       Row(<<k1, sDONE, <<"B","a","l","a","n","c","e">>, sDEPOSIT>>),
       Row(<<NaN, sDONE, m2p, sDEPOSIT>>),
       Faulty(<<k2, sDONE, m2p, sDEPOSIT>>),
       Row(<<k2, <<"d","o","n","e">>, <<"S","e","t","t","l","e","m","e","n","t">>,
             <<"W","i","t","h","d","r","a","w">>>>),
       Row(<<k2, <<"P","E","N","D">>, m2p, sDEPOSIT>>),
       Row(<<blank, sDONE, m2p, sDEPOSIT>>),
       Row(<<k1, sDONE, <<"s","e","t","t","l","e","m","e","n","t","s">>,
             <<"D","e","p","o","s","i","t">>>>),
       Row(<<k2, sDONE, m2p, sWITHDRAW>>),
       Row(<<k1, sDONE, sSETTLEMENT, <<"R","e","f","u","n","d">>>>) >>

PaymentFiles ==
    {File(PaymentHeaders, rows) : rows \in Windows(PaymentSample, MaxRows)}
    \cup {File(<<sFoo, sStatus, sPaymentGateway, sType>>,
               <<Row(<<k1, sDONE, m2p, sDEPOSIT>>)>>),
          Unreadable}

KeySample(rest) ==
    << Row(<<k1>> \o rest), Row(<<k1sp>> \o rest), Row(<<NaN>> \o rest),
       Faulty(<<k2>> \o rest), Row(<<k2>> \o rest), Row(<<blank>> \o rest) >>

a500 == <<"5","0","0">>

a500USC == <<"5","0","0","U","S","C">>

a125usc == <<"1","2",".","5"," ","u","s","c">>

aUSC7 == <<"U","S","C"," ","7">>

\* rows of a CRM export: request id, time, trading account, amount
CrmSample ==
    << Row(<<k1, x, x, a500>>), Row(<<k1sp, x, x, a500>>), Row(<<NaN, x, x, aUSC7>>),
       Faulty(<<k2, x, x, a500>>), Row(<<k2, x, x, a500USC>>), Row(<<blank, x, x, x>>),
       Row(<<k1, x, x, a125usc>>), Row(<<k2, x, x, NaN>>) >>

RebateFiles ==
    {File(<<sTransactionID, sRebateTime>>, rows) : rows \in Windows(KeySample(<<x>>), MaxRows)}
    \cup {File(h, <<Row(<<k1, x>>)>>) :
              h \in {<<sFoo, sRebateTime>>, <<sTransactionID, sFoo>>, <<sFoo, sBar>>}}
    \cup {Unreadable}

CRMWithdrawalFiles ==
    {File(<<sRequestID, sReviewTime, sTradingAccount, sWithdrawalAmount>>, rows) :
        rows \in Windows(CrmSample, MaxRows)}
    \cup {File(h, <<Row(<<k1, x, x, x>>)>>) :
              h \in {<<sFoo, sReviewTime, sTradingAccount, sWithdrawalAmount>>,
                     <<sRequestID, sFoo, sTradingAccount, sBar>>}}
    \cup {Unreadable}

CRMDepositFiles ==
    {File(<<sRequestID, sRequestTime, sTradingAccount, sTradingAmount>>, rows) :
        rows \in Windows(CrmSample, MaxRows)}
    \cup {File(h, <<Row(<<k1, x, x, x>>)>>) :
              h \in {<<sFoo, sRequestTime, sTradingAccount, sTradingAmount>>,
                     <<sRequestID, sFoo, sBar, sTradingAmount>>}}
    \cup {Unreadable}

AccountSample ==
    << Row(<<<<"M","e","t","a","T","r","a","d","e","r">>, NaN, NaN>>),
       Row(<<k1, x, x>>), Row(<<k1, x, sWelcomeGroup>>), Row(<<NaN, x, x>>),
       Faulty(<<k2, x, x>>), Row(<<k2, x, x>>), Row(<<blank, x, x>>),
       Row(<<<<>>, x, x>>) >>

\* the title line of a MetaTrader export
TitleRow == Row(<<<<"M","e","t","a","T","r","a","d","e","r">>, NaN, NaN>>)

AccountFiles ==
    {File(<<sLogin, sName, sGroup>>, rows) : rows \in Windows(AccountSample, MaxRows)}
    \cup {File(<<sLogin, sName, sGroup>>, rows) :
              rows \in {<<TitleRow, TitleRow>>, <<Row(<<k1, x, x>>), TitleRow>>}}
    \cup {File(h, <<Row(<<k1, x, x>>)>>) :
              h \in {<<sFoo, sName, sGroup>>, <<sLogin, sFoo, sBar>>}}
    \cup {Unreadable}

(***************************************************************************)
(* The state machine: one action per ingester call.  last is what the      *)
(* caller observes of the call that just ended; return_to_caller ends the  *)
(* request.  A call starts from an idle caller, or repeats the call that   *)
(* just ended with the same file for the same owner.                       *)
(***************************************************************************)
NoCall ==
    [kind |-> "none", owner |-> 0, file |-> Unreadable, commit_ok |-> TRUE,
     status |-> "none", error |-> "none", missing |-> <<>>,
     added_rows |-> 0, skipped_rows |-> 0, total_rows |-> 0, deleted |-> 0,
     same_as_prev |-> FALSE]

\* what the caller observes of a call, and whether it repeats the previous call
Summary(kind, user, file, commit_ok, r) ==
    [kind |-> kind, owner |-> user, file |-> file, commit_ok |-> commit_ok,
     status |-> r.status, error |-> r.error, missing |-> r.missing,
     added_rows |-> r.added_rows, skipped_rows |-> r.skipped_rows,
     total_rows |-> r.total_rows, deleted |-> r.deleted,
     same_as_prev |-> (last.kind = kind /\ last.owner = user /\ last.file = file
                       /\ last.status = "returned")]

\* the table an ingester reads and writes
TableName(kind) ==
    CASE kind \in {"payment", "run_payment"} -> "PaymentData"
      [] kind = "rebate"  -> "IBRebate"
      [] kind = "crmw"    -> "CRMWithdrawals"
      [] kind \in {"crmd", "run_crmd"} -> "CRMDeposit"
      [] kind \in {"account", "run_account"} -> "AccountList"

Store ==
    [PaymentData |-> PaymentData, IBRebate |-> IBRebate,
     CRMWithdrawals |-> CRMWithdrawals, CRMDeposit |-> CRMDeposit,
     AccountList |-> AccountList]

sSeed == <<"s","e","e","d">>

\* records persisted before the behaviour starts, one of every type, all of
\* owner 1; the payment record and the account record carry keys of the files
Stored ==
    [PaymentData |-> <<[user_id |-> 1, tx_id |-> k1, status |-> sDONE, type |-> sDEPOSIT,
                       payment_gateway |-> sSeed, sheet_category |-> "M2p Deposit"]>>,
     IBRebate |-> <<[user_id |-> 1, transaction_id |-> sSeed]>>,
     CRMWithdrawals |-> <<[user_id |-> 1, request_id |-> sSeed, withdrawal_amount |-> Scale]>>,
     CRMDeposit |-> <<[user_id |-> 1, request_id |-> k1, trading_amount |-> Scale]>>,
     AccountList |-> <<[user_id |-> 2, login |-> sSeed, group |-> x,
                        is_welcome_bonus |-> FALSE]>>]

\* An ingester touches its own table only, so the behaviours explored work on one
\* table: a call starts when no other table holds a record it was not given
\* at the start.
OneTable(kind) ==
    \A name \in DOMAIN Store :
        name # TableName(kind) => Store[name] \in {<<>>, Stored[name]}

\* the request may start: the caller is idle, or uploads the same file again
MayCall(kind, user, file) ==
    \/ last.kind = "none" /\ OneTable(kind)
    \/ last.kind = kind /\ last.owner = user /\ last.file = file

\* no report function has been called
NoReport == [fn |-> "none"]

Init ==
    /\ PaymentData = <<>>
    /\ IBRebate = <<>>
    /\ CRMWithdrawals = <<>>
    /\ CRMDeposit = <<>>
    /\ AccountList = <<>>
    /\ ncalls = 0
    /\ last = NoCall
    /\ sessions = <<>>
    /\ report = NoReport

process_payment_data ==
    /\ ncalls < MaxCalls
    /\ \E user \in Users, file \in PaymentFiles, commit_ok \in BOOLEAN :
           /\ MayCall("payment", user, file)
           /\ LET r == process_payment_data_result(file, user, PaymentData, autoflush, commit_ok)
              IN  /\ PaymentData' = r.table
                  /\ last' = Summary("payment", user, file, commit_ok, r)
    /\ ncalls' = ncalls + 1
    /\ UNCHANGED <<report, sessions>>
    /\ UNCHANGED <<IBRebate, CRMWithdrawals, CRMDeposit, AccountList>>

process_ib_rebate ==
    /\ ncalls < MaxCalls
    /\ \E user \in Users, file \in RebateFiles, commit_ok \in BOOLEAN :
           /\ MayCall("rebate", user, file)
           /\ LET r == process_ib_rebate_result(file, user, IBRebate, autoflush, commit_ok)
              IN  /\ IBRebate' = r.table
                  /\ last' = Summary("rebate", user, file, commit_ok, r)
    /\ ncalls' = ncalls + 1
    /\ UNCHANGED <<report, sessions>>
    /\ UNCHANGED <<PaymentData, CRMWithdrawals, CRMDeposit, AccountList>>

process_crm_withdrawals ==
    /\ ncalls < MaxCalls
    /\ \E user \in Users, file \in CRMWithdrawalFiles, commit_ok \in BOOLEAN :
           /\ MayCall("crmw", user, file)
           /\ LET r == process_crm_withdrawals_result(file, user, CRMWithdrawals,
                                                      autoflush, commit_ok)
              IN  /\ CRMWithdrawals' = r.table
                  /\ last' = Summary("crmw", user, file, commit_ok, r)
    /\ ncalls' = ncalls + 1
    /\ UNCHANGED <<report, sessions>>
    /\ UNCHANGED <<PaymentData, IBRebate, CRMDeposit, AccountList>>

process_crm_deposit ==
    /\ ncalls < MaxCalls
    /\ \E user \in Users, file \in CRMDepositFiles, commit_ok \in BOOLEAN :
           /\ MayCall("crmd", user, file)
           /\ LET r == process_crm_deposit_result(file, user, CRMDeposit, autoflush, commit_ok)
              IN  /\ CRMDeposit' = r.table
                  /\ last' = Summary("crmd", user, file, commit_ok, r)
    /\ ncalls' = ncalls + 1
    /\ UNCHANGED <<report, sessions>>
    /\ UNCHANGED <<PaymentData, IBRebate, CRMWithdrawals, AccountList>>

process_account_list ==
    /\ ncalls < MaxCalls
    /\ \E user \in Users, file \in AccountFiles, commit_ok \in BOOLEAN :
           /\ MayCall("account", user, file)
           /\ LET r == process_account_list_result(file, user, AccountList, autoflush, commit_ok)
              IN  /\ AccountList' = r.table
                  /\ last' = Summary("account", user, file, commit_ok, r)
    /\ ncalls' = ncalls + 1
    /\ UNCHANGED <<report, sessions>>
    /\ UNCHANGED <<PaymentData, IBRebate, CRMWithdrawals, CRMDeposit>>

run_process_payment ==
    /\ ncalls < MaxCalls
    /\ \E user \in Users, file \in PaymentFiles, commit_ok \in BOOLEAN :
           /\ MayCall("run_payment", user, file)
           /\ LET r == run_process_payment_result(file, user, PaymentData, autoflush, commit_ok)
              IN  /\ PaymentData' = r.table
                  /\ last' = Summary("run_payment", user, file, commit_ok, r)
    /\ ncalls' = ncalls + 1
    /\ UNCHANGED <<report, sessions>>
    /\ UNCHANGED <<IBRebate, CRMWithdrawals, CRMDeposit, AccountList>>

run_process_account_list ==
    /\ ncalls < MaxCalls
    /\ \E user \in Users, file \in AccountFiles, commit_ok \in BOOLEAN :
           /\ MayCall("run_account", user, file)
           /\ LET r == run_process_account_list_result(file, user, AccountList,
                                                       autoflush, commit_ok)
              IN  /\ AccountList' = r.table
                  /\ last' = Summary("run_account", user, file, commit_ok, r)
    /\ ncalls' = ncalls + 1
    /\ UNCHANGED <<report, sessions>>
    /\ UNCHANGED <<PaymentData, IBRebate, CRMWithdrawals, CRMDeposit>>

run_process_crm_deposit ==
    /\ ncalls < MaxCalls
    /\ \E user \in Users, file \in CRMDepositFiles, commit_ok \in BOOLEAN :
           /\ MayCall("run_crmd", user, file)
           /\ LET r == run_process_crm_deposit_result(file, user, CRMDeposit,
                                                     autoflush, commit_ok)
              IN  /\ CRMDeposit' = r.table
                  /\ last' = Summary("run_crmd", user, file, commit_ok, r)
    /\ ncalls' = ncalls + 1
    /\ UNCHANGED <<report, sessions>>
    /\ UNCHANGED <<PaymentData, IBRebate, CRMWithdrawals, AccountList>>

return_to_caller ==
    /\ last.kind # "none"
    /\ last' = NoCall
    /\ UNCHANGED <<PaymentData, IBRebate, CRMWithdrawals, CRMDeposit, AccountList,
                   ncalls, report, sessions>>

Next ==
    \/ return_to_caller
    \/ process_payment_data
    \/ process_ib_rebate
    \/ process_crm_withdrawals
    \/ process_crm_deposit
    \/ process_account_list
    \/ run_process_payment
    \/ run_process_account_list
    \/ run_process_crm_deposit

Spec == Init /\ [][Next]_vars

\* the same calls on a store that already holds records of every type
InitStored ==
    /\ PaymentData = Stored.PaymentData
    /\ IBRebate = Stored.IBRebate
    /\ CRMWithdrawals = Stored.CRMWithdrawals
    /\ CRMDeposit = Stored.CRMDeposit
    /\ AccountList = Stored.AccountList
    /\ ncalls = 0
    /\ last = NoCall
    /\ sessions = <<>>
    /\ report = NoReport

SpecStored == InitStored /\ [][Next]_vars

(***************************************************************************)
(* Two requests of one owner that ingest files of one record type at the   *)
(* same time.  Each request has its own database session: the dedup query  *)
(* of a row sees the committed table and the records the same session has  *)
(* added, never the uncommitted records of the other session.  A step is   *)
(* the processing of one row, or the commit that ends the request.  seen    *)
(* remembers, for every record a session added, how many records were      *)
(* committed when its dedup query ran; offset the number of records        *)
(* committed before the session's own.                                     *)
(***************************************************************************)
RaceKinds == {"payment", "rebate"}

RaceFiles(kind) ==
    IF kind = "payment"
    THEN {File(PaymentHeaders, rows) :
              rows \in Windows(PaymentSample, MaxRows) \ {<<>>}}
    ELSE {File(<<sTransactionID, sRebateTime>>, rows) :
              rows \in Windows(KeySample(<<x>>), MaxRows) \ {<<>>}}

Session(kind, user, file) ==
    [kind |-> kind, user |-> user, file |-> file, next |-> 1, st |-> st0,
     status |-> "open", seen |-> <<>>, offset |-> 0]

\* the context of the row loop of a request, on the table committed so far
RaceCtx(session, table) ==
    Ctx(session.user, session.file.headers, table, autoflush,
        IF session.kind = "payment" THEN <<>>
        ELSE [tx_id |-> find_column_index(session.file.headers,
                            <<sTransactionID, sTRANSACTION_ID>>, sTransactionID),
              rebate |-> find_column_index(session.file.headers, <<sRebate>>, sRebate),
              rebate_time |-> find_column_index(session.file.headers,
                                  <<sRebateTime, sREBATE_TIME>>, sRebateTime)])

InitRace ==
    /\ PaymentData = <<>>
    /\ IBRebate = <<>>
    /\ CRMWithdrawals = <<>>
    /\ CRMDeposit = <<>>
    /\ AccountList = <<>>
    /\ ncalls = 0
    /\ last = NoCall
    /\ report = NoReport
    /\ \E kind \in RaceKinds, user \in Users :
           sessions \in [1..2 -> {Session(kind, user, file) : file \in RaceFiles(kind)}]

\* one pass of the row loop of request p: the dedup query and, if it finds
\* nothing, db.session.add
process_row(p) ==
    /\ sessions[p].status = "open"
    /\ sessions[p].next <= Len(sessions[p].file.rows)
    /\ LET session == sessions[p]
           table == IF session.kind = "payment" THEN PaymentData ELSE IBRebate
           st == try_row(session.kind, RaceCtx(session, table),
                         session.file.rows[session.next], session.st)
       IN  sessions' = [sessions EXCEPT ![p] =
               [session EXCEPT !.next = @ + 1, !.st = st,
                               !.seen = IF st.added > session.st.added
                                        THEN Append(@, Len(table)) ELSE @]]
    /\ UNCHANGED <<PaymentData, IBRebate, CRMWithdrawals, CRMDeposit, AccountList,
                   ncalls, last, report>>

\* db.session.commit() of request p after its last row, or the rollback of a
\* commit that fails
commit_request(p) ==
    /\ sessions[p].status = "open"
    /\ sessions[p].next > Len(sessions[p].file.rows)
    /\ \E commit_ok \in BOOLEAN :
           LET session == sessions[p]
               table == IF session.kind = "payment" THEN PaymentData ELSE IBRebate
               after == IF commit_ok THEN session_commit(table, session.st.pending)
                        ELSE session_rollback(table, table, session.st.pending)
           IN  /\ sessions' = [sessions EXCEPT ![p] =
                       [session EXCEPT !.status = IF commit_ok THEN "committed"
                                                  ELSE "rolled_back",
                                       !.offset = Len(table)]]
               /\ IF session.kind = "payment"
                  THEN PaymentData' = after /\ UNCHANGED IBRebate
                  ELSE IBRebate' = after /\ UNCHANGED PaymentData
    /\ UNCHANGED <<CRMWithdrawals, CRMDeposit, AccountList, ncalls, last, report>>

NextRace ==
    \/ \E p \in 1..2 : process_row(p)
    \/ \E p \in 1..2 : commit_request(p)

SpecRace == InitRace /\ [][NextRace]_vars

(***************************************************************************)
(* The reconciliation report over stored records.  The report reads        *)
(* CRMDeposit and PaymentData and writes nothing; its behaviours start     *)
(* from tables already filled.  Of a record only the columns the report    *)
(* reads are kept; id is the primary key, the position in the table.  A    *)
(* behaviour is one request: the report is computed once.                  *)
(***************************************************************************)
MaxRecords == 2

c1 == <<"c","1">>

c1Padded == <<" ","C","1"," ">>

c9 == <<"c","9">>

ta_c1_001 == <<"t","a","-","c","1","-","0","0","1">>

TA_C1_002 == <<"T","A","-","C","1","-","0","0","2"," ">>

sBank == <<"b","a","n","k">>

sTopChangePadded == <<" ","T","o","p","C","h","a","n","g","e"," ">>

stopchange == <<"t","o","p","c","h","a","n","g","e">>

\* 10:00, 10:05, 10:05 plus 3.5 hours and one second more, as seconds of a day
t1000 == 36000

t1005 == 36300

t1335 == t1005 + MaxTimeDiff

t1335_01 == t1335 + 1

\* amounts, in units of 1 / Scale
amt(units, hundredths) == Some(units * Scale + hundredths * (Scale \div 100))

CrmDepositRecords ==
    { [user_id |-> 1, request_time |-> Some(t1000), client_id |-> c1, name |-> sFoo,
       trading_amount |-> amt(500, 0), payment_method |-> sBank],
      [user_id |-> 1, request_time |-> Some(t1335), client_id |-> c1Padded, name |-> sBar,
       trading_amount |-> amt(501, 25), payment_method |-> sTopChangePadded],
      [user_id |-> 1, request_time |-> Some(t1335_01), client_id |-> c1, name |-> sFoo,
       trading_amount |-> amt(500, 25), payment_method |-> stopchange],
      [user_id |-> 1, request_time |-> None, client_id |-> None, name |-> None,
       trading_amount |-> None, payment_method |-> None],
      [user_id |-> 2, request_time |-> Some(t1000), client_id |-> c1, name |-> sFoo,
       trading_amount |-> amt(500, 0), payment_method |-> sBank],
      [user_id |-> 1, request_time |-> Some(t1000), client_id |-> blank, name |-> sBar,
       trading_amount |-> amt(501, 25), payment_method |-> None],
      [user_id |-> 1, request_time |-> Some(t1000), client_id |-> c9, name |-> sFoo,
       trading_amount |-> amt(500, 0), payment_method |-> sBank],
      [user_id |-> 1, request_time |-> Some(t1005), client_id |-> None, name |-> sBar,
       trading_amount |-> amt(500, 0), payment_method |-> sBank] }

PaymentRecords ==
    { [user_id |-> 1, sheet_category |-> "M2p Deposit", created |-> Some(t1005),
       trading_account |-> ta_c1_001, final_amount |-> amt(500, 25)],
      [user_id |-> 1, sheet_category |-> "M2p Deposit", created |-> Some(t1005),
       trading_account |-> TA_C1_002, final_amount |-> amt(500, 0)],
      [user_id |-> 1, sheet_category |-> "Settlement Deposit", created |-> Some(t1005),
       trading_account |-> ta_c1_001, final_amount |-> amt(500, 25)],
      [user_id |-> 2, sheet_category |-> "M2p Deposit", created |-> Some(t1005),
       trading_account |-> ta_c1_001, final_amount |-> amt(500, 25)],
      [user_id |-> 1, sheet_category |-> "M2p Deposit", created |-> None,
       trading_account |-> None, final_amount |-> None] }

\* the tables of at most n records drawn from a set, keyed by position
TablesOf(records, n) ==
    UNION { { [k \in 1..len |-> [id |-> k] @@ t[k]] : t \in [1..len -> records] }
            : len \in 0..n }

\* the date ranges a request may carry
DateRanges ==
    {NoRange, DateRange(t1000, t1335),
     [start_date |-> Some(t1005), end_date |-> None],
     [start_date |-> None, end_date |-> Some(t1005)]}

InitCompare ==
    /\ CRMDeposit \in TablesOf(CrmDepositRecords, MaxRecords)
    /\ PaymentData \in TablesOf(PaymentRecords, MaxRecords)
    /\ IBRebate = <<>>
    /\ CRMWithdrawals = <<>>
    /\ AccountList = <<>>
    /\ ncalls = 0
    /\ last = NoCall
    /\ sessions = <<>>
    /\ report = NoReport

compare_crm_and_client_deposits ==
    /\ report = NoReport
    /\ \E user \in Users, range \in DateRanges :
           report' = compare_crm_and_client_deposits_result(CRMDeposit, PaymentData,
                                                            user, range)
    /\ UNCHANGED <<PaymentData, IBRebate, CRMWithdrawals, CRMDeposit, AccountList,
                   ncalls, last, sessions>>

NextCompare == compare_crm_and_client_deposits

SpecCompare == InitCompare /\ [][NextCompare]_vars

(***************************************************************************)
(* The helpers of the file decoder, applied to an argument the caller      *)
(* chose: a first line for detect_separator, a header row with search      *)
(* terms and an exact-match literal for find_column_index.                 *)
(***************************************************************************)
MaxLine == 4

MaxHeaders == 3

\* the characters of a first line: the three separators and a letter
LineChars == {"\t", ",", ";", "a"}

\* the texts of at most n elements over a set
SeqsUpTo(elements, n) == UNION {[1..len -> elements] : len \in 0..n}

sTransID == <<"T","r","a","n","s"," ","I","D">>

sTrans == <<"T","r","a","n","s">>

stransaction_id_padded == <<" ","t","r","a","n","s","a","c","t","i","o","n"," ","i","d"," ">>

HeaderSample == {sTransID, sTransactionID, sStatus, stransaction_id_padded}

SearchTermLists == {<<sTransactionID>>, <<sTrans, sStatus>>}

ExactMatches == {None, <<>>, sTransactionID, sStatus}

Argument(of, line, headers, search_terms, exact_match) ==
    [of |-> of, line |-> line, headers |-> headers,
     search_terms |-> search_terms, exact_match |-> exact_match]

Arguments ==
    {Argument("line", line, <<>>, <<>>, None) : line \in SeqsUpTo(LineChars, MaxLine)}
    \cup {Argument("headers", <<>>, a[1], a[2], a[3]) :
              a \in SeqsUpTo(HeaderSample, MaxHeaders) \X SearchTermLists \X ExactMatches}

Applied(fn, arg, result) == [fn |-> fn, arg |-> arg, result |-> result]

InitHelpers ==
    /\ PaymentData = <<>>
    /\ IBRebate = <<>>
    /\ CRMWithdrawals = <<>>
    /\ CRMDeposit = <<>>
    /\ AccountList = <<>>
    /\ ncalls = 0
    /\ last = NoCall
    /\ sessions = <<>>
    /\ report \in {Applied("none", arg, None) : arg \in Arguments}

call_detect_separator ==
    /\ report.arg.of = "line"
    /\ report' = Applied("detect_separator", report.arg, detect_separator(report.arg.line))
    /\ UNCHANGED <<PaymentData, IBRebate, CRMWithdrawals, CRMDeposit, AccountList,
                   ncalls, last, sessions>>

call_run_detect_separator ==
    /\ report.arg.of = "line"
    /\ report' = Applied("run_detect_separator", report.arg,
                         run_detect_separator(report.arg.line))
    /\ UNCHANGED <<PaymentData, IBRebate, CRMWithdrawals, CRMDeposit, AccountList,
                   ncalls, last, sessions>>

call_find_column_index ==
    /\ report.arg.of = "headers"
    /\ report' = Applied("find_column_index", report.arg,
                         find_column_index(report.arg.headers, report.arg.search_terms,
                                           report.arg.exact_match))
    /\ UNCHANGED <<PaymentData, IBRebate, CRMWithdrawals, CRMDeposit, AccountList,
                   ncalls, last, sessions>>

NextHelpers ==
    \/ call_detect_separator
    \/ call_run_detect_separator
    \/ call_find_column_index

SpecHelpers == InitHelpers /\ [][NextHelpers]_vars

(***************************************************************************)
(* The sufficiency test of the reports over stored records.  A table holds *)
(* a number of records of owner 1 dated inside the range the request may   *)
(* carry and, when the store is mixed, also a record of another owner, a   *)
(* record of owner 1 dated outside that range and one without a date.      *)
(***************************************************************************)
MaxPerType == 10

\* the other columns the reports read, the same in every record of a table
Columns(date_column) ==
    CASE date_column = "created" ->
             [sheet_category |-> "M2p Deposit", final_amount |-> amt(500, 25),
              tier_fee |-> amt(1, 50)]
      [] date_column = "rebate_time" -> [rebate |-> amt(2, 0)]
      [] date_column = "review_time" ->
             [withdrawal_amount |-> amt(5, 0), trading_account |-> ta_c1_001]
      [] date_column = "request_time" ->
             [trading_amount |-> amt(500, 0), payment_method |-> sTopChangePadded]

\* count records of one owner with one date, in the date column of the table
Records(number, user, date_column, date) ==
    [k \in 1..number |-> [user_id |-> user] @@ (date_column :> date) @@ Columns(date_column)]

WithIds(records) == [k \in 1..Len(records) |-> [id |-> k] @@ records[k]]

Population(number, mixed, date_column) ==
    WithIds((IF mixed
             THEN Records(1, 2, date_column, Some(t1005))
                  \o Records(1, 1, date_column, Some(t1335_01))
                  \o Records(1, 1, date_column, None)
             ELSE <<>>)
            \o Records(number, 1, date_column, Some(t1005)))

InitSufficiency ==
    /\ \E mixed \in BOOLEAN :
        \E payments, rebates, withdrawals, deposits \in 0..MaxPerType :
           /\ PaymentData = Population(payments, mixed, "created")
           /\ IBRebate = Population(rebates, mixed, "rebate_time")
           /\ CRMWithdrawals = Population(withdrawals, mixed, "review_time")
           /\ CRMDeposit = Population(deposits, mixed, "request_time")
    /\ AccountList = <<>>
    /\ ncalls = 0
    /\ last = NoCall
    /\ sessions = <<>>
    /\ report = NoReport

check_data_sufficiency_for_charts ==
    /\ report = NoReport
    /\ \E user \in Users, range \in DateRanges :
           report' = check_data_sufficiency_for_charts_result(Store, user, range)
    /\ UNCHANGED <<PaymentData, IBRebate, CRMWithdrawals, CRMDeposit, AccountList,
                   ncalls, last, sessions>>

NextSufficiency == check_data_sufficiency_for_charts

SpecSufficiency == InitSufficiency /\ [][NextSufficiency]_vars

\* the final report over the same stores
generate_final_report ==
    /\ report = NoReport
    /\ \E user \in Users, range \in DateRanges :
           report' = generate_final_report_result(Store, user, range)
    /\ UNCHANGED <<PaymentData, IBRebate, CRMWithdrawals, CRMDeposit, AccountList,
                   ncalls, last, sessions>>

NextReport == generate_final_report

SpecReport == InitSufficiency /\ [][NextReport]_vars

(***************************************************************************)
(* Vocabulary of the properties.  In every file of the catalogue the       *)
(* identity key is the first column; a payment file carries the status in  *)
(* the second and the gateway name in the third column.                    *)
(***************************************************************************)
DedupKinds == {"payment", "rebate", "crmw", "crmd"}

\* the five ingesters of app/stage2_processing.py
Ingesters == DedupKinds \cup {"account"}

TableOf(kind) ==
    CASE kind = "payment" -> PaymentData
      [] kind = "rebate"  -> IBRebate
      [] kind = "crmw"    -> CRMWithdrawals
      [] kind = "crmd"    -> CRMDeposit
      [] kind = "account" -> AccountList
      [] kind = "run_payment" -> PaymentData
      [] kind = "run_account" -> AccountList
      [] kind = "run_crmd"    -> CRMDeposit
      [] OTHER            -> <<>>

Called == ncalls' = ncalls + 1

IsReturned == last.kind \in Ingesters /\ last.status = "returned"

\* the mandatory fields of each ingester, with the terms that resolve them
Mandatory(kind) ==
    CASE kind = "rebate" ->
            {[name |-> "Transaction ID", terms |-> {sTransactionID, sTRANSACTION_ID}],
             [name |-> "Rebate Time", terms |-> {sRebateTime, sREBATE_TIME}]}
      [] kind = "crmw" ->
            {[name |-> "Review Time", terms |-> {sReviewTime, sREVIEW_TIME}],
             [name |-> "Trading Account", terms |-> {sTradingAccount, sTRADING_ACCOUNT}],
             [name |-> "Withdrawal Amount", terms |-> {sWithdrawalAmount, sWITHDRAWAL_AMOUNT}],
             [name |-> "Request ID", terms |-> {sRequestID, sREQUEST_ID}]}
      [] kind = "crmd" ->
            {[name |-> "Request Time", terms |-> {sRequestTime, sREQUEST_TIME}],
             [name |-> "Trading Account", terms |-> {sTradingAccount, sTRADING_ACCOUNT}],
             [name |-> "Trading Amount", terms |-> {sTradingAmount, sTRADING_AMOUNT}],
             [name |-> "Request ID", terms |-> {sRequestID, sREQUEST_ID}]}
      [] kind = "account" ->
            {[name |-> "Login", terms |-> {sLogin}],
             [name |-> "Name", terms |-> {sName}],
             [name |-> "Group", terms |-> {sGroup}]}
      [] OTHER -> {}

\* the names of the mandatory fields no header of the file resolves
Unresolved(kind, file) ==
    {f.name : f \in {g \in Mandatory(kind) :
        ~ \E j \in 1..Len(file.headers) : \E t \in g.terms :
              Contains(upper(t), upper(strip(file.headers[j])))}}

\* unreadable, no data row, or a mandatory column missing
FileLevelFailure(kind, file) ==
    \/ ~file.readable
    \/ Len(file.rows) = 0
    \/ Unresolved(kind, file) # {}

\* the rows the loop of the ingester goes through
Processed(kind, file) ==
    IF kind = "account" THEN drop_description_line(file.rows) ELSE file.rows

HasKeyColumn(file) ==
    /\ Len(file.headers) > 0
    /\ strip(file.headers[1]) \in {sTransactionID, sRequestID, sLogin}

\* the identity-key cell is there and is neither empty nor whitespace-only
KeyPresent(file, row) ==
    /\ HasKeyColumn(file)
    /\ row.cells[1] # NaN
    /\ strip(row.cells[1]) # <<>>

\* the two tests of the payment ingester on the raw cells
PassesPaymentTests(row) ==
    /\ upper(str(row.cells[2])) = sDONE
    /\ upper(str(row.cells[3])) # sBALANCE

\* a row no skip rule rejects, dedup aside
Eligible(kind, file, row) ==
    /\ ~row.fault
    /\ KeyPresent(file, row)
    /\ kind = "payment" => PassesPaymentTests(row)

\* the identity key as it is stored
StoredKey(kind, row) ==
    IF kind = "account" THEN str(row.cells[1]) ELSE strip(str(row.cells[1]))

Count(rows, P(_)) == Cardinality({i \in 1..Len(rows) : P(rows[i])})

IsFault(row) == row.fault

(***************************************************************************)
(* Properties.                                                             *)
(***************************************************************************)
\* the rows of an account file the ingester accepts: no row error, non-empty login text
AcceptedAccountRows(file) ==
    SelectSeq(Processed("account", file),
              LAMBDA row : ~row.fault /\ str(row.cells[1]) # <<>>)

\* C1 as stated: for each of the five ingesters, a file ingested a second time in a
\* row for the same owner, both calls returning, adds nothing and skips every row.
C1_IdempotentAllFive ==
    (IsReturned /\ last.same_as_prev) =>
        (last.added_rows = 0 /\ last.skipped_rows = last.total_rows)

\* C1, amended: the payment, rebate, CRM withdrawal and CRM deposit ingesters add
\* nothing and skip every row when the same file is ingested a second time in a row
\* for the same owner and both calls return; the account-list ingester adds every
\* accepted row again.
C1_IdempotentDedupKinds ==
    (IsReturned /\ last.same_as_prev) =>
        IF last.kind \in DedupKinds
        THEN last.added_rows = 0 /\ last.skipped_rows = last.total_rows
        ELSE last.added_rows = Len(AcceptedAccountRows(last.file))

\* a payment file with an eligible row was ingested twice in a row and both calls returned
C1_Witness ==
    /\ IsReturned /\ last.same_as_prev
    /\ last.kind = "payment"
    /\ \E i \in 1..Len(last.file.rows) : Eligible("payment", last.file, last.file.rows[i])
    /\ \E i \in 1..Len(PaymentData) : PaymentData[i].user_id = last.owner
    /\ last.added_rows = 0

\* C2: no two persisted records of the same type and owner share an identity key.
C2_KeyUnique ==
    \A kind \in DedupKinds \cup {"account"} :
        \A i, j \in 1..Len(TableOf(kind)) :
            (i < j /\ TableOf(kind)[i].user_id = TableOf(kind)[j].user_id)
                => KeyOf(kind, TableOf(kind)[i]) # KeyOf(kind, TableOf(kind)[j])

\* C3: the dedup check looks at the current owner's records only, so after a call
\* that returned, every eligible row of the file has a record of that owner (it was
\* added, or the owner had it already), whatever other owners have stored.
C3_OwnerScopedDedup ==
    (IsReturned /\ last.kind \in DedupKinds) =>
        \A i \in 1..Len(last.file.rows) :
            Eligible(last.kind, last.file, last.file.rows[i]) =>
                \E n \in 1..Len(TableOf(last.kind)) :
                    /\ TableOf(last.kind)[n].user_id = last.owner
                    /\ KeyOf(last.kind, TableOf(last.kind)[n])
                           = StoredKey(last.kind, last.file.rows[i])

C5_RowErrorIsolation ==
    (IsReturned /\ \E i \in 1..Len(Processed(last.kind, last.file)) :
                        Processed(last.kind, last.file)[i].fault) =>
        LET rows == Processed(last.kind, last.file)
        IN  /\ last.added_rows + last.skipped_rows = last.total_rows
            /\ last.total_rows = Len(rows)
            /\ last.skipped_rows >= Count(rows, IsFault)
            /\ \A i, j \in 1..Len(rows) :
                   (i < j /\ rows[i].fault /\ Eligible(last.kind, last.file, rows[j])) =>
                       \E n \in 1..Len(TableOf(last.kind)) :
                           KeyOf(last.kind, TableOf(last.kind)[n])
                               = StoredKey(last.kind, rows[j])

\* a call returned having skipped a faulty first row and added the row after it
C5_Witness ==
    /\ IsReturned
    /\ Len(Processed(last.kind, last.file)) = 2
    /\ Processed(last.kind, last.file)[1].fault
    /\ Eligible(last.kind, last.file, Processed(last.kind, last.file)[2])
    /\ last.added_rows = 1 /\ last.skipped_rows = 1

\* a row whose identity-key cell is there, non-empty and not whitespace-only, and
\* whose processing raises no error
HasKey(row) == ~row.fault /\ KeyPresent(last.file, row)

\* C6: a row whose identity-key cell is empty, whitespace-only or absent is skipped
\* and never persisted: a call adds no more rows than the file has rows with a key.
C6_EmptyKeyNeverPersisted ==
    IsReturned =>
        last.added_rows <= Count(Processed(last.kind, last.file), HasKey)

\* the rows of an account file the ingester of run.py accepts, and the login and
\* group texts it stores for them
RunAcceptedAccountRows(file) ==
    SelectSeq(IF first_cell_raises(file) THEN <<>>
              ELSE IF Contains(sMETATRADER, upper(file.rows[1].cells[1]))
                   THEN Tail(file.rows) ELSE file.rows,
              LAMBDA row : /\ Len(file.headers) > 0 /\ file.headers[1] = sLogin
                           /\ strip(str(row.cells[1])) # <<>>)

\* C7: after an account-list call of an owner returned (process_account_list of
\* app/stage2_processing.py or of run.py), the owner's records are exactly those
\* built from the accepted rows of the file, and the records of every other owner
\* are unchanged.
C7_SnapshotReplace ==
    [][(Called /\ last'.kind \in {"account", "run_account"}
           /\ last'.status = "returned") =>
          LET mine   == SelectSeq2(AccountList', last'.owner, TRUE)
              rows   == IF last'.kind = "account"
                        THEN AcceptedAccountRows(last'.file)
                        ELSE RunAcceptedAccountRows(last'.file)
              text(c) == IF last'.kind = "account" THEN str(c) ELSE strip(str(c))
              group(row) == IF last'.file.headers[3] = sGroup
                            THEN text(row.cells[3]) ELSE <<>>
          IN  /\ Len(mine) = Len(rows)
              /\ \A n \in 1..Len(mine) :
                     /\ mine[n].login = text(rows[n].cells[1])
                     /\ mine[n].group = group(rows[n])
              /\ SelectSeq2(AccountList', last'.owner, FALSE)
                     = SelectSeq2(AccountList, last'.owner, FALSE)
              /\ last'.added_rows = Len(rows)]_vars

\* an account-list call with no accepted row returned and removed every record the
\* owner had from the earlier import
C7_Witness ==
    /\ IsReturned /\ last.kind = "account"
    /\ last.deleted > 0 /\ last.added_rows = 0
    /\ \A n \in 1..Len(AccountList) : AccountList[n].user_id # last.owner

\* C8: when mandatory columns cannot be resolved, the rebate, CRM withdrawal, CRM
\* deposit and account-list ingesters fail before any row is processed and the error
\* names every unresolved mandatory field.
C8_MissingColumnsNamesAll ==
    (last.kind \in {"rebate", "crmw", "crmd", "account"}
     /\ Unresolved(last.kind, last.file) # {}
     /\ last.file.readable /\ Len(last.file.rows) > 0) =>
        /\ last.status = "raised" /\ last.error = "missing_columns"
        /\ {last.missing[n] : n \in 1..Len(last.missing)}
               = Unresolved(last.kind, last.file)
        /\ last.added_rows = 0 /\ last.skipped_rows = 0

\* C9: a call on a file that is unreadable, has no data row or lacks a mandatory
\* column raises and leaves every table unchanged.
C9_FileLevelFailure ==
    [][(Called /\ last'.kind \in Ingesters /\ FileLevelFailure(last'.kind, last'.file))
          => /\ last'.status = "raised"
             /\ last'.error \in {"unreadable", "empty", "missing_columns"}
             /\ tables' = tables]_vars

\* an account-list call failed on a missing column while the owner had account records
C9_Witness ==
    /\ last.kind = "account" /\ last.status = "raised"
    /\ last.error = "missing_columns"
    /\ \E n \in 1..Len(AccountList) : AccountList[n].user_id = last.owner

\* the payment row passes neither test, or fails one of them
FailsPaymentTests(row) == ~PassesPaymentTests(row)

\* C10: every payment record has status DONE and a gateway name that does not
\* upper-case to BALANCE; process_payment_data counts every row failing the status
\* test or the gateway test as skipped, and neither it nor process_payment of run.py
\* adds more rows than pass both tests.
C10_PaymentSkipPredicates ==
    /\ \A n \in 1..Len(PaymentData) :
           /\ PaymentData[n].status = sDONE
           /\ upper(str(PaymentData[n].payment_gateway)) # sBALANCE
    /\ (IsReturned /\ last.kind = "payment") =>
           /\ last.skipped_rows >= Count(last.file.rows, FailsPaymentTests)
           /\ last.added_rows <= Len(last.file.rows) - Count(last.file.rows, FailsPaymentTests)
    /\ (last.kind = "run_payment" /\ last.status = "returned") =>
           last.added_rows <= Len(last.file.rows) - Count(last.file.rows, FailsPaymentTests)

\* a payment call returned on a file with a DONE row of the Balance gateway and
\* a row it added
C10_Witness ==
    /\ IsReturned /\ last.kind = "payment"
    /\ last.added_rows = 1
    /\ \E i \in 1..Len(last.file.rows) :
           /\ upper(str(last.file.rows[i].cells[2])) = sDONE
           /\ upper(str(last.file.rows[i].cells[3])) = sBALANCE
           /\ ~last.file.rows[i].fault

SheetCategories ==
    {"Settlement Deposit", "M2p Deposit", "Settlement Withdraw", "M2p Withdraw"}

\* the stored gateway name contains SETTLEMENT, whatever its case
IsSettlement(rec) == Contains(sSETTLEMENT, upper(str(rec.payment_gateway)))

\* C11: every payment record carries one of the four sheet categories; a record of
\* type DEPOSIT is a Settlement Deposit when its gateway name contains SETTLEMENT
\* (case-insensitive) and an M2p Deposit otherwise, and a record of type WITHDRAW is
\* a Settlement Withdraw or an M2p Withdraw by the same test.
C11_SheetCategory ==
    \A n \in 1..Len(PaymentData) :
        LET rec == PaymentData[n]
        IN  /\ rec.sheet_category \in SheetCategories
            /\ rec.type = sDEPOSIT =>
                   rec.sheet_category = IF IsSettlement(rec) THEN "Settlement Deposit"
                                        ELSE "M2p Deposit"
            /\ rec.type = sWITHDRAW =>
                   rec.sheet_category = IF IsSettlement(rec) THEN "Settlement Withdraw"
                                        ELSE "M2p Withdraw"

\* process_payment_data stored a withdrawal through a gateway whose name contains
\* the word in mixed case
C11_Witness ==
    /\ last.kind = "payment" /\ last.status = "returned" /\ last.added_rows > 0
    /\ \E n \in 1..Len(PaymentData) :
           /\ PaymentData[n].type = sWITHDRAW
           /\ PaymentData[n].payment_gateway # upper(PaymentData[n].payment_gateway)
           /\ PaymentData[n].sheet_category = "Settlement Withdraw"

AmountOf(rec) ==
    IF "trading_amount" \in DOMAIN rec THEN rec.trading_amount ELSE rec.withdrawal_amount

\* the coerced numeric value of the amount text, divided by 100 when the text
\* contains USC in any case
ExpectedAmount(raw) ==
    IF Contains(sUSC, upper(str(raw))) THEN safe_float(upper(str(raw))) \div 100
    ELSE safe_float(upper(str(raw)))

\* C12: every record a CRM withdrawal or CRM deposit ingestion adds stores the
\* coerced numeric value of the amount text of its row, divided by 100 when the text
\* contains USC (case-insensitive) and unchanged otherwise.
C12_SubunitConversion ==
    [][(Called /\ last'.kind \in {"crmw", "crmd", "run_crmd"}
           /\ last'.status = "returned") =>
          LET before == IF last'.kind = "crmw" THEN CRMWithdrawals ELSE CRMDeposit
              after  == IF last'.kind = "crmw" THEN CRMWithdrawals' ELSE CRMDeposit'
          IN  \A n \in (Len(before) + 1)..Len(after) :
                  \E i \in 1..Len(last'.file.rows) :
                      /\ ~last'.file.rows[i].fault
                      /\ strip(str(last'.file.rows[i].cells[1])) = after[n].request_id
                      /\ AmountOf(after[n]) = ExpectedAmount(last'.file.rows[i].cells[4])]_vars

(***************************************************************************)
(* Properties of compare_crm_and_client_deposits, stated on the stored     *)
(* records the report was computed from.                                   *)
(***************************************************************************)
Compared == report.fn = "compare_crm_and_client_deposits"

\* the stored records behind a normalised CRM row and a normalised payment row
CrmRecord(k) == CRMDeposit[report.crm_normalized[k].id]

PaymentRecord(j) == PaymentData[report.client_normalized[j].id]

\* the payment row j was taken by a CRM row processed before row k
TakenBefore(j, k) == \E n \in 1..Len(report.pairs) :
                         report.pairs[n][2] = j /\ report.pairs[n][1] < k

\* the CRM row k was matched to the payment row j
Paired(k, j) == \E n \in 1..Len(report.pairs) : report.pairs[n] = <<k, j>>

\* the four conditions of a match, on the stored records
MatchPredicate(crm, payment) ==
    /\ crm.request_time # None /\ payment.created # None
    /\ Abs(ValueOf(crm.request_time) - ValueOf(payment.created)) <= (7 * 3600) \div 2
    /\ Contains(lower(strip(text_or_empty(crm.client_id))),
                lower(strip(text_or_empty(payment.trading_account))))
    /\ Abs(float_or_zero(crm.trading_amount) - float_or_zero(payment.final_amount))
           <= Scale

\* C13: a CRM row is matched only to a payment row that satisfies the four
\* conditions (both timestamps, at most 3.5 hours apart, client id contained in
\* the trading account after trimming and lower-casing, amounts at most 1.0
\* apart), and a CRM row that has a still unmatched payment row satisfying them
\* is matched.
C13_MatchPredicate ==
    Compared =>
        /\ \A n \in 1..Len(report.pairs) :
               MatchPredicate(CrmRecord(report.pairs[n][1]),
                              PaymentRecord(report.pairs[n][2]))
        /\ \A k \in 1..Len(report.crm_normalized), j \in 1..Len(report.client_normalized) :
               (~TakenBefore(j, k) /\ MatchPredicate(CrmRecord(k), PaymentRecord(j)))
                   => \E i \in 1..j : Paired(k, i)

\* a padded, mixed-case client id matched at exactly 3.5 hours and exactly 1.0
C13_Witness ==
    /\ Compared
    /\ \E n \in 1..Len(report.pairs) :
           LET crm == CrmRecord(report.pairs[n][1])
               payment == PaymentRecord(report.pairs[n][2])
           IN  /\ crm.client_id = c1Padded
               /\ ValueOf(crm.request_time) - ValueOf(payment.created) = MaxTimeDiff
               /\ ValueOf(crm.trading_amount) - ValueOf(payment.final_amount) = Scale
    /\ \E k \in 1..Len(report.crm_normalized) : \A j \in 1..Len(report.client_normalized) :
           ~Paired(k, j)

\* C14: CRM rows are matched in query order, each to the first payment row in
\* query order that is still unmatched and satisfies the match predicate; no
\* payment row is matched to two CRM rows and no CRM row to two payment rows.
C14_GreedyOneToOne ==
    Compared =>
        /\ \A n, m \in 1..Len(report.pairs) :
               /\ n < m => report.pairs[n][1] < report.pairs[m][1]
               /\ n # m => report.pairs[n][2] # report.pairs[m][2]
        /\ \A n \in 1..Len(report.pairs) :
               LET k == report.pairs[n][1]
                   j == report.pairs[n][2]
               IN  /\ ~TakenBefore(j, k)
                   /\ \A i \in 1..(j - 1) :
                          \/ TakenBefore(i, k)
                          \/ ~MatchPredicate(CrmRecord(k), PaymentRecord(i))
        /\ report.matched = {report.client_normalized[report.pairs[n][2]].id :
                                 n \in 1..Len(report.pairs)}

\* two CRM rows that both satisfy the predicate with both payment rows: the
\* first takes the first payment row, the second is left with the second one
C14_Witness ==
    /\ Compared
    /\ report.pairs = << <<1, 1>>, <<2, 2>> >>
    /\ \A k \in 1..2, j \in 1..2 : MatchPredicate(CrmRecord(k), PaymentRecord(j))

\* the CRM rows and the payment rows of the report that were left unmatched
UnmatchedCrm == {k \in 1..Len(report.crm_normalized) :
                    \A j \in 1..Len(report.client_normalized) : ~Paired(k, j)}

UnmatchedPayments == {j \in 1..Len(report.client_normalized) :
                         \A k \in 1..Len(report.crm_normalized) : ~Paired(k, j)}

\* the payment method of a stored CRM record is "topchange", trimmed, in any case
IsTopChange(crm) ==
    lower(strip(text_or_empty(crm.payment_method))) = <<"t","o","p","c","h","a","n","g","e">>

\* the entries the report owes: source and id of the row each one stands for
ExpectedEntries ==
    {<<"CRM Deposit", report.crm_normalized[k].id>> :
         k \in {u \in UnmatchedCrm : ~IsTopChange(CrmRecord(u))}}
    \cup {<<"M2p Deposit", report.client_normalized[j].id>> : j \in UnmatchedPayments}

\* C15: the discrepancies are exactly one entry for every unmatched CRM row whose
\* payment method is not topchange and one entry for every unmatched payment
\* row; total_discrepancies is the number of entries.
C15_DiscrepancySet ==
    Compared =>
        /\ {<<report.discrepancies[n].source, report.discrepancies[n].id>> :
                n \in 1..Len(report.discrepancies)} = ExpectedEntries
        /\ Len(report.discrepancies) = Cardinality(ExpectedEntries)
        /\ report.total_discrepancies = Len(report.discrepancies)

\* an unmatched CRM row stored with method " TopChange ", an unmatched CRM row
\* with another method and an unmatched payment row: two entries
C15_Witness ==
    /\ Compared
    /\ \E k \in UnmatchedCrm : CrmRecord(k).payment_method = sTopChangePadded
    /\ \E k \in UnmatchedCrm : ~IsTopChange(CrmRecord(k))
    /\ UnmatchedPayments # {}
    /\ report.total_discrepancies = 2

\* the position in its query result of the row a discrepancy entry stands for
QueryPosition(entry) ==
    IF entry.source = "CRM Deposit"
    THEN CHOOSE k \in 1..Len(report.crm_normalized) :
             report.crm_normalized[k].id = entry.id
    ELSE CHOOSE j \in 1..Len(report.client_normalized) :
             report.client_normalized[j].id = entry.id

\* C16: in the discrepancy list every CRM entry precedes every payment entry,
\* and the entries of each source keep the order of their query result.
C16_DiscrepancyOrder ==
    Compared =>
        \A n, m \in 1..Len(report.discrepancies) :
            LET first == report.discrepancies[n]
                second == report.discrepancies[m]
            IN  n < m =>
                    /\ ~(first.source = "M2p Deposit" /\ second.source = "CRM Deposit")
                    /\ first.source = second.source =>
                           QueryPosition(first) < QueryPosition(second)

\* two unmatched CRM rows and two unmatched payment rows
C16_Witness ==
    /\ Compared
    /\ Len(report.discrepancies) = 4
    /\ report.discrepancies[2].source = "CRM Deposit"
    /\ report.discrepancies[3].source = "M2p Deposit"

(***************************************************************************)
(* Properties of the decoder helpers.                                      *)
(***************************************************************************)
SeparatorDetected == report.fn \in {"detect_separator", "run_detect_separator"}

Tabs == count(report.arg.line, "\t")

Commas == count(report.arg.line, ",")

Semicolons == count(report.arg.line, ";")

\* C17: detect_separator returns tab when the tab count is at least the comma
\* count and at least the semicolon count, otherwise semicolon when the
\* semicolon count is at least the comma count, otherwise comma.
C17_SeparatorRule ==
    SeparatorDetected =>
        report.result = IF Tabs >= Commas /\ Tabs >= Semicolons THEN "\t"
                        ELSE IF Semicolons >= Commas THEN ";"
                        ELSE ","

\* one tab, one comma and two semicolons: semicolon
C17_Witness ==
    /\ report.fn = "detect_separator"
    /\ Tabs = 1 /\ Commas = 1 /\ Semicolons = 2
    /\ report.result = ";"

\* C18 as stated: a line without tab, comma and semicolon yields comma.
C18_ZeroCountsComma ==
    (SeparatorDetected /\ Tabs = 0 /\ Commas = 0 /\ Semicolons = 0)
        => report.result = ","

\* C18: a line without tab, comma and semicolon yields tab, the first choice of
\* a tie.
C18_ZeroCountsTab ==
    (SeparatorDetected /\ Tabs = 0 /\ Commas = 0 /\ Semicolons = 0)
        => report.result = "\t"

\* a non-empty line of letters only, given to detect_separator
C18_Witness ==
    /\ report.fn = "detect_separator"
    /\ report.arg.line # <<>>
    /\ Tabs = 0 /\ Commas = 0 /\ Semicolons = 0
    /\ report.result = "\t"

\* the headers that equal the exact-match literal after trimming and upper-casing
ExactHeaders ==
    {i \in 1..Len(report.arg.headers) :
        upper(strip(report.arg.headers[i])) = upper(report.arg.exact_match)}

\* C19: given an exact-match literal that some header equals after trimming and
\* upper-casing, find_column_index returns the index of the first such header,
\* whatever earlier header contains a search term.
C19_ExactMatchFirst ==
    (/\ report.fn = "find_column_index"
     /\ report.arg.exact_match # None /\ report.arg.exact_match # <<>>
     /\ ExactHeaders # {})
        => report.result = Min(ExactHeaders) - 1

\* "Trans ID", then "Transaction ID": the first contains the term "Trans", the
\* second equals the literal and is returned
C19_Witness ==
    /\ report.fn = "find_column_index"
    /\ report.arg.headers = <<sTransID, sTransactionID, sStatus>>
    /\ report.arg.search_terms = <<sTrans, sStatus>>
    /\ report.arg.exact_match = sTransactionID
    /\ report.result = 1

(***************************************************************************)
(* Properties of check_data_sufficiency_for_charts, stated on the stored   *)
(* records.                                                                *)
(***************************************************************************)
SufficiencyChecked == report.fn = "check_data_sufficiency_for_charts"

\* the owner's records of a table that are in the range of the request: all of
\* them when the request carries no range
InRangeRecords(table, date_column) ==
    {k \in 1..Len(table) :
        /\ table[k].user_id = report.user
        /\ (report.range.start_date # None /\ report.range.end_date # None) =>
               /\ table[k][date_column] # None
               /\ ValueOf(table[k][date_column]) >= ValueOf(report.range.start_date)
               /\ ValueOf(table[k][date_column]) <= ValueOf(report.range.end_date)}

InRangeByType ==
    <<InRangeRecords(PaymentData, "created"), InRangeRecords(IBRebate, "rebate_time"),
      InRangeRecords(CRMWithdrawals, "review_time"),
      InRangeRecords(CRMDeposit, "request_time")>>

TotalInRange ==
    Cardinality(InRangeByType[1]) + Cardinality(InRangeByType[2])
    + Cardinality(InRangeByType[3]) + Cardinality(InRangeByType[4])

TypesWithRecords == Cardinality({t \in 1..4 : InRangeByType[t] # {}})

\* C20: sufficient_for_charts is true exactly when the owner's in-range records
\* over the four types number at least 20 and at least 3 of the 4 types have a
\* record.
C20_Sufficiency ==
    SufficiencyChecked =>
        (report.sufficient_for_charts <=> (TotalInRange >= 20 /\ TypesWithRecords >= 3))

\* exactly 20 in-range records over exactly 3 types, in a mixed store with a
\* date range: sufficient
C20_Witness ==
    /\ SufficiencyChecked
    /\ report.range = DateRange(t1000, t1335)
    /\ Len(PaymentData) + Len(IBRebate) + Len(CRMWithdrawals) + Len(CRMDeposit) > 20
    /\ TotalInRange = 20 /\ TypesWithRecords = 3
    /\ report.sufficient_for_charts

(***************************************************************************)
(* Further properties of the ingesters.                                    *)
(***************************************************************************)
\* C29: every stored payment record of category "M2p Withdraw" or "Settlement
\* Withdraw" has type WITHDRAW.
C29_WithdrawCategoryType ==
    \A n \in 1..Len(PaymentData) :
        PaymentData[n].sheet_category \in {"M2p Withdraw", "Settlement Withdraw"}
            => PaymentData[n].type = sWITHDRAW

\* C26: a call of an ingester leaves every record already stored of the four
\* keyed types in place and unchanged (each of these tables only grows at its
\* end), and changes no table but the one of its own record type.
C26_StoredImmutable ==
    [][Called =>
          /\ PaymentData' = IF TableName(last'.kind) = "PaymentData"
                            THEN PaymentData \o SubSeq(PaymentData', Len(PaymentData) + 1,
                                                       Len(PaymentData'))
                            ELSE PaymentData
          /\ IBRebate' = IF TableName(last'.kind) = "IBRebate"
                         THEN IBRebate \o SubSeq(IBRebate', Len(IBRebate) + 1, Len(IBRebate'))
                         ELSE IBRebate
          /\ CRMWithdrawals' = IF TableName(last'.kind) = "CRMWithdrawals"
                               THEN CRMWithdrawals \o SubSeq(CRMWithdrawals',
                                        Len(CRMWithdrawals) + 1, Len(CRMWithdrawals'))
                               ELSE CRMWithdrawals
          /\ CRMDeposit' = IF TableName(last'.kind) = "CRMDeposit"
                           THEN CRMDeposit \o SubSeq(CRMDeposit', Len(CRMDeposit) + 1,
                                                     Len(CRMDeposit'))
                           ELSE CRMDeposit
          /\ TableName(last'.kind) # "AccountList" => AccountList' = AccountList]_vars

\* a payment file with the stored key k1 and a new key was ingested: the stored
\* record is still the first one, a record was added after it, and the other
\* tables still hold what they held
C26_Witness ==
    /\ last.kind = "payment" /\ last.status = "returned"
    /\ last.skipped_rows > 0 /\ last.added_rows > 0
    /\ Len(PaymentData) > 1
    /\ PaymentData[1] = Stored.PaymentData[1]
    /\ IBRebate = Stored.IBRebate /\ CRMDeposit = Stored.CRMDeposit
    /\ AccountList = Stored.AccountList

\* C27: a call of an ingester that returns reports added_rows + skipped_rows =
\* total_rows, total_rows is the number of data rows processed, and the store
\* holds added_rows more records than were left of the old ones.
C27_CountConservation ==
    [][(Called /\ last'.kind \in Ingesters /\ last'.status = "returned") =>
          LET before == CASE last'.kind = "payment" -> PaymentData
                          [] last'.kind = "rebate" -> IBRebate
                          [] last'.kind = "crmw" -> CRMWithdrawals
                          [] last'.kind = "crmd" -> CRMDeposit
                          [] last'.kind = "account" -> AccountList
              after  == CASE last'.kind = "payment" -> PaymentData'
                          [] last'.kind = "rebate" -> IBRebate'
                          [] last'.kind = "crmw" -> CRMWithdrawals'
                          [] last'.kind = "crmd" -> CRMDeposit'
                          [] last'.kind = "account" -> AccountList'
          IN  /\ last'.added_rows + last'.skipped_rows = last'.total_rows
              /\ last'.total_rows = Len(Processed(last'.kind, last'.file))
              /\ Len(after) = Len(before) - last'.deleted + last'.added_rows]_vars

\* an account-list call that replaced stored records, added a row and skipped one
C27_Witness ==
    /\ last.kind = "account" /\ last.status = "returned"
    /\ last.deleted > 0 /\ last.added_rows > 0 /\ last.skipped_rows > 0
    /\ last.added_rows + last.skipped_rows = last.total_rows

\* the first cell of the first data row holds the marker, in any case
HasTitleRow(file) ==
    /\ Len(file.rows) > 0
    /\ file.rows[1].cells[1] # NaN
    /\ Contains(<<"M","E","T","A","T","R","A","D","E","R">>, upper(file.rows[1].cells[1]))

\* C25: an account-list call drops the first data row when its first cell holds
\* "METATRADER" in any case: the row is not counted in total_rows, added_rows or
\* skipped_rows and is not stored; every other row, a later row with the marker
\* included, is processed, and stored when it has a login.
C25_TitleRowDropped ==
    [][(Called /\ last'.kind \in {"account", "run_account"}
           /\ last'.status = "returned") =>
          LET file == last'.file
              kept == IF HasTitleRow(file) THEN Tail(file.rows) ELSE file.rows
              accepted ==
                  SelectSeq(kept,
                      LAMBDA row :
                          IF last'.kind = "account"
                          THEN ~row.fault /\ str(row.cells[1]) # <<>>
                          ELSE file.headers[1] = sLogin /\ strip(str(row.cells[1])) # <<>>)
              text(c) == IF last'.kind = "account" THEN str(c) ELSE strip(str(c))
              mine == SelectSeq2(AccountList', last'.owner, TRUE)
          IN  /\ last'.kind = "account" =>
                     /\ last'.total_rows = Len(kept)
                     /\ last'.added_rows + last'.skipped_rows = Len(kept)
              /\ last'.added_rows = Len(accepted)
              /\ Len(mine) = Len(accepted)
              /\ \A n \in 1..Len(mine) : mine[n].login = text(accepted[n].cells[1])]_vars

\* a file of two title lines: the first is dropped, the second is stored
C25_Witness ==
    /\ last.kind = "account" /\ last.status = "returned"
    /\ last.file.rows = <<TitleRow, TitleRow>>
    /\ last.total_rows = 1 /\ last.added_rows = 1
    /\ Len(AccountList) = 1
    /\ AccountList[1].login = <<"M","e","t","a","T","r","a","d","e","r">>

(***************************************************************************)
(* Properties of the reports.                                              *)
(***************************************************************************)
\* C30: generate_final_report returns for every owner and every date range, with
\* the eleven metrics and a presentation flag that negates the sufficiency check.
C30_ReportCompletes ==
    report.fn = "generate_final_report" =>
        /\ report.status = "returned"
        /\ Cardinality(DOMAIN report.calculations) = 11
        /\ "Welcome Bonus Withdrawals" \in DOMAIN report.calculations
        /\ report.formatted_table =
               ~(TotalInRange >= MIN_RECORDS_FOR_CHARTS
                 /\ TypesWithRecords >= MIN_CATEGORIES_WITH_DATA)

(***************************************************************************)
(* Further properties of the decoder helpers.                              *)
(***************************************************************************)
\* no exact-match literal was given, or no header equals it
NoExactHeader ==
    \/ report.arg.exact_match = None
    \/ report.arg.exact_match = <<>>
    \/ ExactHeaders = {}

\* the headers that contain a search term, after trimming and upper-casing
PartialHeaders ==
    {i \in 1..Len(report.arg.headers) :
        \E t \in 1..Len(report.arg.search_terms) :
            Contains(upper(report.arg.search_terms[t]),
                     upper(strip(report.arg.headers[i])))}

\* C23: without an exact match, find_column_index returns the smallest index of
\* a header that contains any of the search terms, and no index when no header
\* contains one.
C23_PartialMatch ==
    (report.fn = "find_column_index" /\ NoExactHeader) =>
        report.result = IF PartialHeaders = {} THEN NoIndex ELSE Min(PartialHeaders) - 1

\* the first header contains the second term only, a later header the first term
C23_Witness ==
    /\ report.fn = "find_column_index"
    /\ report.arg.exact_match = None
    /\ report.arg.search_terms = <<sTrans, sStatus>>
    /\ report.arg.headers = <<sStatus, sTransID>>
    /\ report.result = 0

\* both ends of the date range of the request are given
BothDatesGiven == report.range.start_date # None /\ report.range.end_date # None

\* a timestamp passes the date filter of the request
PassesDateFilter(timestamp) ==
    BothDatesGiven =>
        /\ timestamp # None
        /\ ValueOf(report.range.start_date) <= ValueOf(timestamp)
        /\ ValueOf(timestamp) <= ValueOf(report.range.end_date)

\* C24: the rows the reconciliation reads are the owner's CRM deposits and the
\* owner's "M2p Deposit" payments; with both dates given exactly those with
\* start <= timestamp <= end, and all of them when a date is missing.
C24_DateRangeFilter ==
    Compared =>
        /\ {report.crm_normalized[k].id : k \in 1..Len(report.crm_normalized)}
               = {CRMDeposit[n].id : n \in
                     {m \in 1..Len(CRMDeposit) :
                         /\ CRMDeposit[m].user_id = report.user
                         /\ PassesDateFilter(CRMDeposit[m].request_time)}}
        /\ {report.client_normalized[k].id : k \in 1..Len(report.client_normalized)}
               = {PaymentData[n].id : n \in
                     {m \in 1..Len(PaymentData) :
                         /\ PaymentData[m].user_id = report.user
                         /\ PaymentData[m].sheet_category = "M2p Deposit"
                         /\ PassesDateFilter(PaymentData[m].created)}}

\* a range from 10:00 to 13:35: the deposit of exactly 10:00 and the deposit of
\* exactly 13:35 are read
C24_Witness ==
    /\ Compared
    /\ report.range = DateRange(t1000, t1335)
    /\ Len(report.crm_normalized) = 2
    /\ report.crm_normalized[1].date = Some(t1000)
    /\ report.crm_normalized[2].date = Some(t1335)

\* the client id of a stored CRM record is missing, empty or blank
EmptyClientId(crm) == strip(text_or_empty(crm.client_id)) = <<>>

\* the payment rows still unmatched when CRM row k is processed that are within
\* the time window and the amount tolerance of it
WindowCandidates(k) ==
    {j \in 1..Len(report.client_normalized) :
        /\ ~TakenBefore(j, k)
        /\ CrmRecord(k).request_time # None /\ PaymentRecord(j).created # None
        /\ Abs(ValueOf(CrmRecord(k).request_time) - ValueOf(PaymentRecord(j).created))
               <= (7 * 3600) \div 2
        /\ Abs(float_or_zero(CrmRecord(k).trading_amount)
               - float_or_zero(PaymentRecord(j).final_amount)) <= Scale}

\* C28: a CRM row without a client id is matched to the first unmatched payment
\* row within the time window and the amount tolerance, whatever its trading
\* account, and to none when there is no such row.
C28_EmptyClientId ==
    Compared =>
        \A k \in 1..Len(report.crm_normalized) :
            EmptyClientId(CrmRecord(k)) =>
                IF WindowCandidates(k) = {}
                THEN k \in UnmatchedCrm
                ELSE Paired(k, Min(WindowCandidates(k)))

\* a CRM row whose client id is missing took the payment row of account
\* "TA-C1-002 " after an earlier row had taken the first payment row
C28_Witness ==
    /\ Compared
    /\ Len(report.pairs) = 2
    /\ CrmRecord(report.pairs[2][1]).client_id = None
    /\ PaymentRecord(report.pairs[2][2]).trading_account = TA_C1_002

\* the pairs of a CRM row and a payment row of the report that satisfy the
\* match predicate
EligiblePairs ==
    {e \in (1..Len(report.crm_normalized)) \X (1..Len(report.client_normalized)) :
        MatchPredicate(CrmRecord(e[1]), PaymentRecord(e[2]))}

\* the assignments that respect the predicate: no row in two pairs
Assignments ==
    {a \in SUBSET EligiblePairs :
        \A e, f \in a : e # f => (e[1] # f[1] /\ e[2] # f[2])}

MaximumMatching == Max({Cardinality(a) : a \in Assignments})

\* C22: the greedy pass forms an assignment that respects the predicate, so it
\* never has more pairs than a maximum matching and never fewer than half of
\* it; it can have strictly fewer.
C22_GreedyWithinMaximum ==
    Compared =>
        /\ {report.pairs[n] : n \in 1..Len(report.pairs)} \in Assignments
        /\ Len(report.pairs) <= MaximumMatching
        /\ MaximumMatching <= 2 * Len(report.pairs)

\* two CRM rows and two payment rows that another assignment matches all, of
\* which the greedy pass matched one pair and left a row of each side
C22_Witness ==
    /\ Compared
    /\ Len(report.crm_normalized) = 2 /\ Len(report.client_normalized) = 2
    /\ MaximumMatching = 2
    /\ Len(report.pairs) = 1
    /\ UnmatchedCrm # {} /\ UnmatchedPayments # {}

(***************************************************************************)
(* Properties of concurrent ingestion.                                     *)
(***************************************************************************)
\* the table the two requests write, and the identity key of its records
RaceTable == IF sessions[1].kind = "payment" THEN PaymentData ELSE IBRebate

RaceKey(rec) == IF sessions[1].kind = "payment" THEN rec.tx_id ELSE rec.transaction_id

\* the request that committed the record at position i of the table
Committer(i) ==
    CHOOSE p \in 1..2 :
        /\ sessions[p].status = "committed"
        /\ sessions[p].offset < i
        /\ i <= sessions[p].offset + Len(sessions[p].st.pending)

\* two stored records of one owner with one identity key
Duplicates ==
    {d \in (1..Len(RaceTable)) \X (1..Len(RaceTable)) :
        /\ d[1] < d[2]
        /\ RaceTable[d[1]].user_id = RaceTable[d[2]].user_id
        /\ RaceKey(RaceTable[d[1]]) = RaceKey(RaceTable[d[2]])}

\* C21: two stored records with the same owner and identity key come from the
\* two concurrent requests, and the dedup query for the later one ran before
\* the other request committed: both passed the check before either committed.
C21_DuplicateOnlyByRace ==
    \A d \in Duplicates :
        LET p == Committer(d[1])
            q == Committer(d[2])
        IN  /\ p # q
            /\ sessions[q].seen[d[2] - sessions[q].offset] <= sessions[p].offset

\* both requests committed and the table holds two records of one owner with one
\* key
C21_Witness ==
    /\ sessions # <<>>
    /\ \A p \in 1..2 : sessions[p].status = "committed"
    /\ Duplicates # {}
====
